---- MODULE Spec2Model ----
(***************************************************************************)
(* Stream codecs of the conversion-tools repository as state machines.     *)
(* Bytes and characters are their integer codes (0..255); a stream is a    *)
(* sequence of codes.  Each tool is run as "encode, then decode what the   *)
(* encoder wrote": `out` is the encoder's output stream and the decoder's  *)
(* input stream.                                                           *)
(***************************************************************************)
EXTENDS Integers, Sequences, FiniteSets, TLC

VARIABLES
    pc,          \* "encode", "decode", "done": which run is active
                 \* ("group", "returned" when decode_group runs alone)
    input,       \* the encoder's input stream (bytes)
    in_pos,      \* bytes of input consumed by fread/fgetc
    wrap_cols,   \* -w value (0 disables wrapping)
    col_count,   \* encoder's column counter
    out,         \* encoder's output stream = decoder's input stream
    enc_result,  \* encoder's return value
    rd,          \* characters of out consumed by the decoder
    dout,        \* decoder's output stream (bytes)
    dec_result,  \* decoder's return value
    stderr,      \* diagnostics written so far (tags)
    use_z,       \* ascii85 -z
    use_y,       \* ascii85 -y
    buffer,      \* ascii85: encoder's fread buffer / decoder's buffer[0..buffer_pos)
    encoded,     \* ascii85: encoder's last encoded group (encoded_len = Len)
    decoded,     \* ascii85: decoder's 4-byte decoded[] array (keeps stale bytes)
    line_length, \* ascii85: decoder's characters on the current line
    wrapped,     \* the output and result of an earlier, wrapped run of the encoder
    value,       \* uint32_t accumulator (decode_group, decode_z85)
    count,       \* characters accumulated (decode_z85 count, decode_group i)
    ignore_garbage, \* base85 -i
    output_buffer,  \* base85: output_buffer[0..output_pos)
    mapping,        \* dna -m
    use_complement, \* dna -c of the encoding run
    dec_complement, \* dna -c of the decoding run
    byte,           \* dna decoder's shift register
    nucleotide_count, \* dna decoder's nucleotides in byte
    invalid_chars,  \* dna decoder's count of ignored characters
    decode_mode,    \* factoradic -d
    verbose_mode,   \* factoradic -v
    clean,          \* factoradic: process_input's clean[] as a string
    char_sep,       \* morse -s
    word_sep,       \* morse -w
    first_char,     \* encode_morse: no character written on this line or word yet
    word_started,   \* encode_morse: a character of the current word is written
    unsupported_count, \* encode_morse: characters skipped
    morse_buffer,   \* decode_morse: morse_buffer[0..buffer_pos)
    invalid_sequences, \* decode_morse: unknown sequences
    text_mode,      \* braille -t
    number_mode,    \* encode_braille: number_mode
    dec_number_mode, \* decode_braille: number_mode
    capital_next,   \* decode_braille: capital_next
    orientation,    \* braille: orientation of the encoder's output stream
    level,          \* leet -l
    ignore_case,    \* leet -i
    scan,           \* decode_leetspeak: i, the characters of buffer processed
    bit_count,      \* binary decode_file: bits in byte
    total_bits,     \* binary decode_file: bits read
    interrupted,    \* binary: the flag set by signal_handler
    compact_mode,   \* dancing_man -c
    first,          \* encode_dancing_man: nothing written yet
    current_figure, \* decode_dancing_man: the lines of the figure, joined
    figure_lines    \* decode_dancing_man: lines in current_figure

commonvars == <<pc, input, in_pos, wrap_cols, col_count, out, enc_result,
                rd, dout, dec_result, stderr>>
a85vars == <<use_z, use_y, buffer, encoded, decoded, line_length>>
accvars == <<value, count>>
z85vars == <<ignore_garbage, output_buffer>>
dnavars == <<mapping, use_complement, dec_complement, byte, nucleotide_count,
             invalid_chars>>
factvars == <<decode_mode, verbose_mode, clean>>
morsevars == <<char_sep, word_sep, first_char, word_started, unsupported_count,
               morse_buffer, invalid_sequences>>
braillevars == <<text_mode, number_mode, dec_number_mode, capital_next, orientation>>
leetvars == <<level, ignore_case, scan>>
binvars == <<bit_count, total_bits, interrupted>>
dancevars == <<compact_mode, first, current_figure, figure_lines>>
textvars == <<factvars, morsevars, braillevars, leetvars, binvars, dancevars>>
codecvars == <<a85vars, wrapped, accvars, z85vars, dnavars>>
\* the variables a tool leaves alone
notfact == <<codecvars, morsevars, braillevars, leetvars, binvars, dancevars>>
notmorse == <<codecvars, factvars, braillevars, leetvars, binvars, dancevars>>
notbraille == <<use_z, use_y, encoded, decoded, wrapped, accvars, z85vars, dnavars,
                factvars, morsevars, leetvars, binvars, dancevars>>
notleet == <<use_z, use_y, encoded, decoded, line_length, wrapped, accvars, z85vars,
             dnavars, factvars, morsevars, braillevars, binvars, dancevars>>
vars == <<commonvars, a85vars, wrapped, accvars, z85vars, dnavars, textvars>>

(***************************************************************************)
(* Bounds of the model and the sampled inputs.                             *)
(***************************************************************************)
MaxGroups == 2
MaxWrap == 2
\* longest text given to a decoder run on its own
MaxText == 6
\* longest input of the byte-wise tools
MaxBytes == 3
\* 4-byte groups of the long input: 5 * LongGroups > MAX_LINE_LENGTH characters
LongGroups == 6554

\* full 4-byte groups: all zero, all space, "Man ", all 0xFF
GroupSample == { <<0, 0, 0, 0>>, <<32, 32, 32, 32>>, <<77, 97, 110, 32>>,
                 <<255, 255, 255, 255>> }
\* the final short group (possibly empty)
TailSample == { <<>>, <<0>>, <<255, 0>>, <<77, 97, 110>> }
\* what an uninitialised decoded[] may hold
Garbage == { 0, 170 }

RECURSIVE Flatten(_)
Flatten(ss) == IF ss = <<>> THEN <<>> ELSE Head(ss) \o Flatten(Tail(ss))

Inputs == UNION { { Flatten(gs) \o t : gs \in [1..n -> GroupSample], t \in TailSample }
                  : n \in 0..MaxGroups }

(***************************************************************************)
(* C arithmetic helpers.  A uint32_t is the pair <<hi, lo>> of its 16-bit  *)
(* halves, so that every intermediate value stays a small integer and the  *)
(* 32-bit wrap-around of the C arithmetic is explicit.                     *)
(***************************************************************************)
Half == 256 * 256

NL == 10

Min(a, b) == IF a < b THEN a ELSE b

U32Zero == <<0, 0>>
UINT32_MAX == <<Half - 1, Half - 1>>

\* (v << 8) | b
U32ShiftInByte(v, b) ==
    << ((v[1] * 256) % Half) + (v[2] \div 256), ((v[2] % 256) * 256) + b >>

\* v / 85 and v % 85
U32Div85(v) == << v[1] \div 85, (((v[1] % 85) * Half) + v[2]) \div 85 >>
U32Mod85(v) == (((v[1] % 85) * Half) + v[2]) % 85

\* v * 85 + d without truncation: hi may exceed 16 bits
WideMulAdd85(v, d) ==
    LET lo == v[2] * 85 + d IN << v[1] * 85 + (lo \div Half), lo % Half >>

\* v * 85 + d in uint32_t arithmetic (modulo 2^32)
U32MulAdd85(v, d) ==
    LET w == WideMulAdd85(v, d) IN << w[1] % Half, w[2] >>

\* UINT32_MAX - d, for 0 <= d < 2^16
U32MaxMinus(d) == << Half - 1, Half - 1 - d >>

U32Gt(a, b) == a[1] > b[1] \/ (a[1] = b[1] /\ a[2] > b[2])

\* (v >> (8*k)) & 0xFF, k = 0..3
U32Byte(v, k) ==
    CASE k = 0 -> v[2] % 256
      [] k = 1 -> v[2] \div 256
      [] k = 2 -> v[1] % 256
      [] OTHER -> v[1] \div 256

\* the element of a singleton set
Only(S) == CHOOSE x \in S : TRUE

IsNewline(c) == c = NL
StripNL(s) == SelectSeq(s, LAMBDA c : ~IsNewline(c))

(***************************************************************************)
(* ascii85.c                                                               *)
(***************************************************************************)
ASCII85_GROUP_SIZE == 4
ASCII85_ENCODED_SIZE == 5
MAX_LINE_LENGTH == 32768

RESULT_SUCCESS == 0
RESULT_ERROR_ARGS == 3
RESULT_ERROR_IO == 4
RESULT_ERROR_DECODE == 5

ascii85_chars ==
    << 33, 34, 35, 36, 37, 38, 39, 40, 41, 42, 43, 44, 45, 46, 47, 48, 49,
       50, 51, 52, 53, 54, 55, 56, 57, 58, 59, 60, 61, 62, 63, 64, 65, 66,
       67, 68, 69, 70, 71, 72, 73, 74, 75, 76, 77, 78, 79, 80, 81, 82, 83,
       84, 85, 86, 87, 88, 89, 90, 91, 92, 93, 94, 95, 96, 97, 98, 99, 100,
       101, 102, 103, 104, 105, 106, 107, 108, 109, 110, 111, 112, 113, 114,
       115, 116, 117 >>

CharZ == 122
CharY == 121
\* 0x20202020
AllSpaces == <<8224, 8224>>

ascii85_decode_char(c) == IF c >= 33 /\ c <= 117 THEN c - 33 ELSE -1

\* value = (value << 8) | (i < len ? input[i] : 0), i = 0..3
RECURSIVE PackGroup(_, _, _, _)
PackGroup(inp, len, i, val) ==
    IF i >= ASCII85_GROUP_SIZE THEN val
    ELSE PackGroup(inp, len, i + 1,
                   U32ShiftInByte(val, IF i < len THEN inp[i + 1] ELSE 0))

\* a bug: the digits written least-significant first
RECURSIVE A85DigitsReversed(_, _, _)
A85DigitsReversed(val, i, output) ==
    IF i < 0 THEN output
    ELSE A85DigitsReversed(U32Div85(val), i - 1,
             [output EXCEPT ![ASCII85_ENCODED_SIZE - i] = ascii85_chars[U32Mod85(val) + 1]])

\* output[i] = ascii85_chars[value % 85]; value /= 85, i = 4..0
RECURSIVE A85Digits(_, _, _)
A85Digits(val, i, output) ==
    IF i < 0 THEN output
    ELSE A85Digits(U32Div85(val), i - 1,
                   [output EXCEPT ![i + 1] = ascii85_chars[U32Mod85(val) + 1]])

\* a bug: the markers chosen without the test for a full group
encode_group_any_len(inp, len, z, y) ==
    LET val == PackGroup(inp, len, 0, U32Zero) IN
    IF z /\ val = U32Zero
    THEN [result |-> RESULT_SUCCESS, output |-> <<CharZ>>]
    ELSE IF y /\ val = AllSpaces
    THEN [result |-> RESULT_SUCCESS, output |-> <<CharY>>]
    ELSE [result |-> RESULT_SUCCESS,
          output |-> SubSeq(A85Digits(val, ASCII85_ENCODED_SIZE - 1, <<0, 0, 0, 0, 0>>),
                            1, IF len = ASCII85_GROUP_SIZE
                               THEN ASCII85_ENCODED_SIZE ELSE len + 1)]

encode_group(inp, len, z, y) ==
    IF len > ASCII85_GROUP_SIZE
    THEN [result |-> RESULT_ERROR_ARGS, output |-> <<>>]
    ELSE LET val == PackGroup(inp, len, 0, U32Zero) IN
         IF len = ASCII85_GROUP_SIZE /\ z /\ val = U32Zero
         THEN [result |-> RESULT_SUCCESS, output |-> <<CharZ>>]
         ELSE IF len = ASCII85_GROUP_SIZE /\ y /\ val = AllSpaces
         THEN [result |-> RESULT_SUCCESS, output |-> <<CharY>>]
         ELSE [result |-> RESULT_SUCCESS,
               output |-> SubSeq(A85Digits(val, ASCII85_ENCODED_SIZE - 1,
                                           <<0, 0, 0, 0, 0>>), 1,
                                 IF len = ASCII85_GROUP_SIZE
                                 THEN ASCII85_ENCODED_SIZE ELSE len + 1)]

\* a bug: the check written without the digit, value > UINT32_MAX / 85
A85OverflowsNoDigit(val, digit) == U32Gt(val, U32Div85(UINT32_MAX))

\* the overflow check of one accumulation step:
\* value > (UINT32_MAX - digit) / 85
A85Overflows(val, digit) == U32Gt(val, U32Div85(U32MaxMinus(digit)))

\* the digit loop over input[i..len-1]; ok is FALSE when a character is no
\* digit or the check refuses the step
RECURSIVE A85DigitLoop(_, _, _, _)
A85DigitLoop(inp, len, i, val) ==
    IF i >= len THEN [ok |-> TRUE, value |-> val]
    ELSE LET digit == ascii85_decode_char(inp[i + 1]) IN
         IF digit < 0 THEN [ok |-> FALSE, value |-> val]
         ELSE IF A85Overflows(val, digit) THEN [ok |-> FALSE, value |-> val]
         ELSE A85DigitLoop(inp, len, i + 1, U32MulAdd85(val, digit))

\* the padding loop, i = len..4
RECURSIVE A85PadLoop(_, _)
A85PadLoop(i, val) ==
    IF i >= ASCII85_ENCODED_SIZE THEN [ok |-> TRUE, value |-> val]
    ELSE IF A85Overflows(val, 84) THEN [ok |-> FALSE, value |-> val]
    ELSE A85PadLoop(i + 1, U32MulAdd85(val, 84))

\* output[ASCII85_GROUP_SIZE - 1 - i] = value & 0xFF; value >>= 8, i = 0..output_len-1
A85Unpack(val, output_len, output) ==
    [ k \in 1..ASCII85_GROUP_SIZE |->
        IF k > ASCII85_GROUP_SIZE - output_len
        THEN U32Byte(val, ASCII85_GROUP_SIZE - k)
        ELSE output[k] ]

\* decode_group on input[0..len-1]; output is the caller's decoded[] array
decode_group(inp, len, output) ==
    IF len = 0 \/ len > ASCII85_ENCODED_SIZE
    THEN [result |-> RESULT_ERROR_ARGS, output |-> output, output_len |-> 0]
    ELSE IF len = 1 /\ inp[1] = CharZ
    THEN [result |-> RESULT_SUCCESS, output |-> <<0, 0, 0, 0>>,
          output_len |-> ASCII85_GROUP_SIZE]
    ELSE IF len = 1 /\ inp[1] = CharY
    THEN [result |-> RESULT_SUCCESS, output |-> <<32, 32, 32, 32>>,
          output_len |-> ASCII85_GROUP_SIZE]
    ELSE IF len < 2
    THEN [result |-> RESULT_ERROR_DECODE, output |-> output, output_len |-> 0]
    ELSE LET d == A85DigitLoop(inp, len, 0, U32Zero) IN
         IF ~d.ok
         THEN [result |-> RESULT_ERROR_DECODE, output |-> output, output_len |-> 0]
         ELSE LET p == A85PadLoop(len, d.value) IN
              IF ~p.ok
              THEN [result |-> RESULT_ERROR_DECODE, output |-> output, output_len |-> 0]
              ELSE [result |-> RESULT_SUCCESS,
                    output |-> A85Unpack(p.value, len - 1, output),
                    output_len |-> len - 1]

\* the loop writing encoded[i..] with line wrapping (ascii85.c 196-215)
RECURSIVE A85Put(_, _, _, _, _)
A85Put(enc, i, o, col, wrap) ==
    IF i > Len(enc) THEN [out |-> o, col_count |-> col, result |-> RESULT_SUCCESS]
    ELSE LET wrapNow == wrap > 0 /\ col + 1 >= wrap
             o2 == IF wrapNow THEN o \o <<enc[i], NL>> ELSE Append(o, enc[i])
             c2 == IF wrapNow THEN 0 ELSE col + 1
         IN  IF c2 > MAX_LINE_LENGTH
             THEN [out |-> o2, col_count |-> c2, result |-> RESULT_ERROR_IO]
             ELSE A85Put(enc, i + 1, o2, c2, wrap)

\* the encoder's position in its streams and its locals
A85EncState ==
    [in_pos |-> in_pos, out |-> out, col_count |-> col_count, buffer |-> buffer,
     encoded |-> encoded, result |-> RESULT_SUCCESS]

\* one iteration of encode_ascii85's fread loop from r; no iteration when
\* the loop has ended
A85EncodeIter(r) ==
    IF r.result # RESULT_SUCCESS \/ r.in_pos >= Len(input) THEN r
    ELSE LET bytes_read == Min(ASCII85_GROUP_SIZE, Len(input) - r.in_pos)
             b == SubSeq(input, r.in_pos + 1, r.in_pos + bytes_read)
             g == encode_group(b, bytes_read, use_z, use_y)
             p == A85Put(g.output, 1, r.out, r.col_count, wrap_cols)
         IN  IF g.result # RESULT_SUCCESS
             THEN [r EXCEPT !.in_pos = r.in_pos + bytes_read, !.buffer = b,
                            !.result = g.result]
             ELSE [in_pos |-> r.in_pos + bytes_read, out |-> p.out,
                   col_count |-> p.col_count, buffer |-> b,
                   encoded |-> g.output, result |-> p.result]

\* one iteration of encode_ascii85's fread loop
A85EncodeGroup ==
    /\ UNCHANGED <<accvars, z85vars, dnavars, textvars>>
    /\ pc = "encode"
    /\ in_pos < Len(input)
    /\ \E r \in { A85EncodeIter(A85EncState) } :
           /\ in_pos' = r.in_pos
           /\ buffer' = r.buffer
           /\ encoded' = r.encoded
           /\ out' = r.out
           /\ col_count' = r.col_count
           /\ IF r.result # RESULT_SUCCESS
              THEN /\ enc_result' = r.result
                   /\ pc' = "decode"
                   /\ stderr' = IF r.result = RESULT_ERROR_IO
                                THEN Append(stderr, "line too long") ELSE stderr
              ELSE UNCHANGED <<enc_result, pc, stderr>>
    /\ UNCHANGED <<input, wrap_cols, rd, dout, dec_result,
                   use_z, use_y, decoded, line_length, wrapped>>

\* fread returns 0: the final newline and the return
A85EncodeEnd ==
    /\ UNCHANGED <<accvars, z85vars, dnavars, textvars>>
    /\ pc = "encode"
    /\ in_pos >= Len(input)
    /\ out' = IF wrap_cols = 0 \/ col_count > 0 THEN Append(out, NL) ELSE out
    /\ enc_result' = RESULT_SUCCESS
    /\ pc' = "decode"
    /\ buffer' = <<>>
    /\ UNCHANGED <<input, in_pos, wrap_cols, col_count, rd, dout, dec_result,
                   stderr, use_z, use_y, encoded, decoded, line_length, wrapped>>

IsA85Space(c) == c = 32 \/ c = 9 \/ c = 10 \/ c = 13

\* buffer_pos left at 0 whatever has been buffered
buffer_pos_never_advanced == Len(<<>>)

buffer_pos == Len(buffer)

\* one iteration of decode_ascii85's fgetc loop
A85DecodeChar ==
    /\ UNCHANGED <<accvars, z85vars, dnavars, textvars>>
    /\ pc = "decode"
    /\ rd < Len(out)
    /\ rd' = rd + 1
    /\ LET c == out[rd + 1] IN
       IF IsA85Space(c)
       THEN /\ line_length' = IF c = NL THEN 0 ELSE line_length
            /\ UNCHANGED <<pc, buffer, decoded, dout, dec_result, stderr>>
       ELSE /\ line_length' = line_length + 1
            /\ IF line_length + 1 > MAX_LINE_LENGTH
               THEN /\ stderr' = Append(stderr, "line too long")
                    /\ dec_result' = RESULT_ERROR_DECODE
                    /\ pc' = "done"
                    /\ UNCHANGED <<buffer, decoded, dout>>
               ELSE IF c = CharZ \/ c = CharY
               THEN IF buffer_pos > 0
                    THEN /\ stderr' = Append(stderr, "compression character in middle of group")
                         /\ dec_result' = RESULT_ERROR_DECODE
                         /\ pc' = "done"
                         /\ UNCHANGED <<buffer, decoded, dout>>
                    ELSE LET g == decode_group(<<c>>, 1, decoded) IN
                         IF g.result # RESULT_SUCCESS
                         THEN /\ dec_result' = g.result
                              /\ pc' = "done"
                              /\ UNCHANGED <<buffer, decoded, dout, stderr>>
                         ELSE /\ decoded' = g.output
                              /\ dout' = dout \o SubSeq(g.output, 1, g.output_len)
                              /\ UNCHANGED <<pc, buffer, dec_result, stderr>>
               ELSE IF ascii85_decode_char(c) >= 0
               THEN IF buffer_pos >= ASCII85_ENCODED_SIZE
                    THEN /\ stderr' = Append(stderr, "buffer overflow")
                         /\ dec_result' = RESULT_ERROR_DECODE
                         /\ pc' = "done"
                         /\ UNCHANGED <<buffer, decoded, dout>>
                    ELSE IF buffer_pos + 1 = ASCII85_ENCODED_SIZE
                    THEN LET g == decode_group(Append(buffer, c), ASCII85_ENCODED_SIZE,
                                               decoded) IN
                         IF g.result # RESULT_SUCCESS
                         THEN /\ stderr' = Append(stderr, "invalid ASCII85 sequence")
                              /\ dec_result' = g.result
                              /\ pc' = "done"
                              /\ buffer' = Append(buffer, c)
                              /\ UNCHANGED <<decoded, dout>>
                         ELSE /\ decoded' = g.output
                              /\ dout' = dout \o SubSeq(g.output, 1, g.output_len)
                              /\ buffer' = <<>>
                              /\ UNCHANGED <<pc, dec_result, stderr>>
                    ELSE /\ buffer' = Append(buffer, c)
                         /\ UNCHANGED <<pc, decoded, dout, dec_result, stderr>>
               ELSE /\ stderr' = Append(stderr, "ignoring invalid character")
                    /\ UNCHANGED <<pc, buffer, decoded, dout, dec_result>>
    /\ UNCHANGED <<input, in_pos, wrap_cols, col_count, out, enc_result,
                   use_z, use_y, encoded, wrapped>>

\* fgetc returns EOF: the remaining partial group and the return
A85DecodeEnd ==
    /\ UNCHANGED <<accvars, z85vars, dnavars, textvars>>
    /\ pc = "decode"
    /\ rd >= Len(out)
    /\ pc' = "done"
    /\ IF buffer_pos > 0
       THEN IF buffer_pos < 2
            THEN /\ stderr' = Append(stderr, "incomplete ASCII85 group at end")
                 /\ dec_result' = RESULT_ERROR_DECODE
                 /\ UNCHANGED <<decoded, dout>>
            ELSE LET g == decode_group(buffer, buffer_pos, decoded) IN
                 IF g.result # RESULT_SUCCESS
                 THEN /\ stderr' = Append(stderr, "invalid final ASCII85 group")
                      /\ dec_result' = g.result
                      /\ UNCHANGED <<decoded, dout>>
                 ELSE /\ decoded' = g.output
                      /\ dout' = dout \o SubSeq(g.output, 1, g.output_len)
                      /\ dec_result' = RESULT_SUCCESS
                      /\ UNCHANGED stderr
       ELSE /\ dec_result' = RESULT_SUCCESS
            /\ UNCHANGED <<decoded, dout, stderr>>
    /\ UNCHANGED <<input, in_pos, wrap_cols, col_count, out, enc_result, rd,
                   use_z, use_y, buffer, encoded, line_length, wrapped>>

NoRun == [done |-> FALSE, out |-> <<>>, result |-> 0]

\* the same input encoded once more, now with -w 0: main() run again
A85RunUnwrapped ==
    /\ UNCHANGED <<accvars, z85vars, dnavars, textvars>>
    /\ pc = "decode"
    /\ ~wrapped.done
    /\ wrap_cols > 0
    /\ rd = 0
    /\ wrapped' = [done |-> TRUE, out |-> out, result |-> enc_result]
    /\ pc' = "encode"
    /\ wrap_cols' = 0
    /\ in_pos' = 0
    /\ col_count' = 0
    /\ out' = <<>>
    /\ enc_result' = RESULT_SUCCESS
    /\ buffer' = <<>>
    /\ encoded' = <<>>
    /\ stderr' = <<>>
    /\ UNCHANGED <<input, rd, dout, dec_result, use_z, use_y, decoded, line_length>>

\* the variables of the tools that do not run
A85Idle ==
    /\ use_z = FALSE
    /\ use_y = FALSE
    /\ buffer = <<>>
    /\ encoded = <<>>
    /\ decoded = <<0, 0, 0, 0>>
    /\ line_length = 0
    /\ wrapped = NoRun
AccIdle == value = U32Zero /\ count = 0
Z85Idle == ignore_garbage = FALSE /\ output_buffer = <<>>
DnaIdle ==
    /\ mapping = <<>>
    /\ use_complement = FALSE
    /\ dec_complement = FALSE
    /\ byte = 0
    /\ nucleotide_count = 0
    /\ invalid_chars = 0

FactIdle == decode_mode = FALSE /\ verbose_mode = FALSE /\ clean = <<>>

\* main(): the default separators and the locals of encode_morse and decode_morse
MorseIdle ==
    /\ char_sep = <<32>>
    /\ word_sep = <<32, 47, 32>>
    /\ first_char = TRUE
    /\ word_started = FALSE
    /\ unsupported_count = 0
    /\ morse_buffer = <<>>
    /\ invalid_sequences = 0

BrailleIdle ==
    /\ text_mode = FALSE
    /\ number_mode = FALSE
    /\ dec_number_mode = FALSE
    /\ capital_next = FALSE
    /\ orientation = "none"

LeetIdle == level = 1 /\ ignore_case = FALSE /\ scan = 0
BinIdle == bit_count = 0 /\ total_bits = 0 /\ interrupted = FALSE
DanceIdle ==
    /\ compact_mode = FALSE
    /\ first = TRUE
    /\ current_figure = <<>>
    /\ figure_lines = 0
TextIdle == FactIdle /\ MorseIdle /\ BrailleIdle /\ LeetIdle /\ BinIdle /\ DanceIdle

\* main(): the options and the streams before encode_ascii85 runs
InitAscii85 ==
    /\ pc = "encode"
    /\ input \in Inputs
    /\ in_pos = 0
    /\ wrap_cols \in 0..MaxWrap
    /\ col_count = 0
    /\ out = <<>>
    /\ enc_result = RESULT_SUCCESS
    /\ rd = 0
    /\ dout = <<>>
    /\ dec_result = RESULT_SUCCESS
    /\ stderr = <<>>
    /\ use_z \in BOOLEAN
    /\ use_y \in BOOLEAN
    /\ buffer = <<>>
    /\ encoded = <<>>
    /\ decoded \in { <<g, g, g, g>> : g \in Garbage }
    /\ line_length = 0
    /\ wrapped = NoRun
    /\ AccIdle /\ Z85Idle /\ DnaIdle /\ TextIdle

NextAscii85 == A85EncodeGroup \/ A85EncodeEnd \/ A85DecodeChar \/ A85DecodeEnd

SpecAscii85 == InitAscii85 /\ [][NextAscii85]_vars

\* n iterations of the loop from r, one after the other; n is halved so
\* that the evaluation stays shallow
RECURSIVE A85EncodeIters(_, _)
A85EncodeIters(r, n) ==
    IF n = 0 THEN r
    ELSE IF n = 1 THEN A85EncodeIter(r)
    ELSE Only({ A85EncodeIters(t, n - (n \div 2)) :
                t \in { A85EncodeIters(r, n \div 2) } })

\* a whole call of encode_ascii85 as one step: the loop runs once for every
\* group of the input unless an iteration fails
A85Encode ==
    /\ UNCHANGED <<accvars, z85vars, dnavars, textvars>>
    /\ pc = "encode"
    /\ \E r \in { A85EncodeIters(A85EncState,
                     (Len(input) + ASCII85_GROUP_SIZE - 1) \div ASCII85_GROUP_SIZE) } :
           /\ in_pos' = r.in_pos
           /\ encoded' = r.encoded
           /\ col_count' = r.col_count
           /\ enc_result' = r.result
           /\ pc' = "decode"
           /\ IF r.result # RESULT_SUCCESS
              THEN /\ out' = r.out
                   /\ buffer' = r.buffer
                   /\ stderr' = IF r.result = RESULT_ERROR_IO
                                THEN Append(stderr, "line too long") ELSE stderr
              ELSE /\ out' = IF wrap_cols = 0 \/ r.col_count > 0
                             THEN Append(r.out, NL) ELSE r.out
                   /\ buffer' = <<>>
                   /\ UNCHANGED stderr
    /\ UNCHANGED <<input, wrap_cols, rd, dout, dec_result,
                   use_z, use_y, decoded, line_length, wrapped>>

\* the encoder alone, on the short inputs and on inputs of zero bytes
\* whose encoding is longer than MAX_LINE_LENGTH: each input is encoded
\* with the wrap width given and then once more with wrapping disabled
DEFAULT_WRAP_COLS == 76

Zeros(n) == SubSeq([i \in 1..n |-> 0], 1, n)

LongInputs == { Zeros(ASCII85_GROUP_SIZE * n) : n \in (LongGroups - 1)..LongGroups }

InitAscii85Long ==
    /\ pc = "encode"
    /\ \/ input \in Inputs /\ wrap_cols \in (0..MaxWrap) \cup {DEFAULT_WRAP_COLS}
       \/ input \in LongInputs /\ wrap_cols \in {0, DEFAULT_WRAP_COLS}
    /\ in_pos = 0
    /\ col_count = 0
    /\ out = <<>>
    /\ enc_result = RESULT_SUCCESS
    /\ rd = 0
    /\ dout = <<>>
    /\ dec_result = RESULT_SUCCESS
    /\ stderr = <<>>
    /\ use_z = FALSE
    /\ use_y = FALSE
    /\ buffer = <<>>
    /\ encoded = <<>>
    /\ decoded = <<0, 0, 0, 0>>
    /\ line_length = 0
    /\ wrapped = NoRun
    /\ AccIdle /\ Z85Idle /\ DnaIdle /\ TextIdle

NextAscii85Long == A85Encode \/ A85RunUnwrapped

SpecAscii85Long == InitAscii85Long /\ [][NextAscii85Long]_vars

(***************************************************************************)
(* decode_group alone, one loop iteration per step, on groups of 2 to 5    *)
(* alphabet characters: count is the loop index i.                         *)
(***************************************************************************)
\* digits around the digits of 0xFFFFFFFF = 82 23 54 12 0, per position
DigitSample == << {0, 81, 82, 83, 84}, {0, 22, 23, 24, 84}, {0, 53, 54, 55, 84},
                  {0, 11, 12, 13, 84}, {0, 1, 84} >>

RECURSIVE GroupTexts(_)
GroupTexts(n) ==
    IF n = 0 THEN { <<>> }
    ELSE { Append(t, ascii85_chars[d + 1]) : t \in GroupTexts(n - 1), d \in DigitSample[n] }

\* one iteration of the digit loop (ascii85.c 141-153)
A85GroupDigit ==
    /\ pc = "group"
    /\ count < Len(buffer)
    /\ LET digit == ascii85_decode_char(buffer[count + 1]) IN
       IF digit < 0 \/ A85Overflows(value, digit)
       THEN /\ dec_result' = RESULT_ERROR_DECODE
            /\ pc' = "returned"
            /\ UNCHANGED <<value, count>>
       ELSE /\ value' = U32MulAdd85(value, digit)
            /\ count' = count + 1
            /\ UNCHANGED <<dec_result, pc>>
    /\ UNCHANGED <<input, in_pos, wrap_cols, col_count, out, enc_result, rd, dout,
                   stderr, a85vars, wrapped, z85vars, dnavars, textvars>>

\* one iteration of the padding loop (ascii85.c 156-161)
A85GroupPad ==
    /\ pc = "group"
    /\ count >= Len(buffer)
    /\ count < ASCII85_ENCODED_SIZE
    /\ IF A85Overflows(value, 84)
       THEN /\ dec_result' = RESULT_ERROR_DECODE
            /\ pc' = "returned"
            /\ UNCHANGED <<value, count>>
       ELSE /\ value' = U32MulAdd85(value, 84)
            /\ count' = count + 1
            /\ UNCHANGED <<dec_result, pc>>
    /\ UNCHANGED <<input, in_pos, wrap_cols, col_count, out, enc_result, rd, dout,
                   stderr, a85vars, wrapped, z85vars, dnavars, textvars>>

\* the unpacking loop and the return (ascii85.c 163-170); the caller writes
\* decoded[0..output_len)
A85GroupUnpack ==
    /\ pc = "group"
    /\ count >= ASCII85_ENCODED_SIZE
    /\ decoded' = A85Unpack(value, Len(buffer) - 1, decoded)
    /\ dout' = SubSeq(decoded', 1, Len(buffer) - 1)
    /\ dec_result' = RESULT_SUCCESS
    /\ pc' = "returned"
    /\ UNCHANGED <<input, in_pos, wrap_cols, col_count, out, enc_result, rd,
                   stderr, use_z, use_y, buffer, encoded, line_length,
                   wrapped, accvars, z85vars, dnavars, textvars>>

InitA85Group ==
    /\ pc = "group"
    /\ buffer \in UNION { GroupTexts(n) : n \in 2..ASCII85_ENCODED_SIZE }
    /\ value = U32Zero
    /\ count = 0
    /\ decoded \in { <<g, g, g, g>> : g \in Garbage }
    /\ input = <<>> /\ in_pos = 0 /\ wrap_cols = 0 /\ col_count = 0
    /\ out = <<>> /\ enc_result = RESULT_SUCCESS /\ rd = 0 /\ dout = <<>>
    /\ dec_result = RESULT_SUCCESS /\ stderr = <<>>
    /\ use_z = FALSE /\ use_y = FALSE /\ encoded = <<>> /\ line_length = 0
    /\ wrapped = NoRun
    /\ Z85Idle /\ DnaIdle /\ TextIdle

NextA85Group == A85GroupDigit \/ A85GroupPad \/ A85GroupUnpack

SpecA85Group == InitA85Group /\ [][NextA85Group]_vars

(***************************************************************************)
(* base85.c                                                                *)
(***************************************************************************)
ENCODE_CHUNK == 4
DECODE_CHUNK == 5
BUFFER_SIZE == 8192

z85_alphabet ==
    << 48, 49, 50, 51, 52, 53, 54, 55, 56, 57, 97, 98, 99, 100, 101, 102, 103,
       104, 105, 106, 107, 108, 109, 110, 111, 112, 113, 114, 115, 116, 117, 118, 119, 120,
       121, 122, 65, 66, 67, 68, 69, 70, 71, 72, 73, 74, 75, 76, 77, 78, 79,
       80, 81, 82, 83, 84, 85, 86, 87, 88, 89, 90, 46, 45, 58, 43, 61, 94,
       33, 47, 42, 63, 38, 60, 62, 40, 41, 91, 93, 123, 125, 64, 37, 36, 35 >>

z85_decoder ==
    << -1, -1, -1, -1, -1, -1, -1, -1, -1, -1, -1, -1, -1, -1, -1, -1,
       -1, -1, -1, -1, -1, -1, -1, -1, -1, -1, -1, -1, -1, -1, -1, -1,
       -1, 68, -1, 84, 83, 82, 72, -1, 75, 76, 70, 71, -1, 69, 74, 67,
       0, 1, 2, 3, 4, 5, 6, 7, 8, 9, 64, -1, 73, 66, -1, 65,
       81, 10, 11, 12, 13, 14, 15, 16, 17, 18, 19, 20, 21, 22, 23, 24,
       25, 26, 27, 28, 29, 30, 31, 32, 33, 34, 35, 77, -1, 78, 79, 80,
       -1, 36, 37, 38, 39, 40, 41, 42, 43, 44, 45, 46, 47, 48, 49, 50,
       51, 52, 53, 54, 55, 56, 57, 58, 59, 60, 61, 62, 63, -1, -1, -1,
       -1, -1, -1, -1, -1, -1, -1, -1, -1, -1, -1, -1, -1, -1, -1, -1,
       -1, -1, -1, -1, -1, -1, -1, -1, -1, -1, -1, -1, -1, -1, -1, -1,
       -1, -1, -1, -1, -1, -1, -1, -1, -1, -1, -1, -1, -1, -1, -1, -1,
       -1, -1, -1, -1, -1, -1, -1, -1, -1, -1, -1, -1, -1, -1, -1, -1,
       -1, -1, -1, -1, -1, -1, -1, -1, -1, -1, -1, -1, -1, -1, -1, -1,
       -1, -1, -1, -1, -1, -1, -1, -1, -1, -1, -1, -1, -1, -1, -1, -1,
       -1, -1, -1, -1, -1, -1, -1, -1, -1, -1, -1, -1, -1, -1, -1, -1,
       -1, -1, -1, -1, -1, -1, -1, -1, -1, -1, -1, -1, -1, -1, -1, -1 >>

\* isspace() in the C locale
IsSpace(c) == c = 32 \/ (c >= 9 /\ c <= 13)

\* value = (value << 8) | chunk[i], i = 0..3, chunk zero-filled beyond chunk_size
RECURSIVE Z85Pack(_, _, _)
Z85Pack(chunk, i, val) ==
    IF i >= ENCODE_CHUNK THEN val
    ELSE Z85Pack(chunk, i + 1,
                 U32ShiftInByte(val, IF i < Len(chunk) THEN chunk[i + 1] ELSE 0))

\* encoded[i] = z85_alphabet[value % 85]; value /= 85, i = 4..0
RECURSIVE Z85Digits(_, _, _)
Z85Digits(val, i, enc) ==
    IF i < 0 THEN enc
    ELSE Z85Digits(U32Div85(val), i - 1,
                   [enc EXCEPT ![i + 1] = z85_alphabet[U32Mod85(val) + 1]])

\* the loop adding encoded[i..output_len) to output_buffer with wrapping
\* (base85.c 214-232); written is what fwrite has put on the stream
RECURSIVE Z85Put(_, _, _, _, _, _, _)
Z85Put(enc, i, output_len, obuf, written, column, wrap) ==
    IF i >= output_len
    THEN [output_buffer |-> obuf, out |-> written, column |-> column]
    ELSE LET flush == Len(obuf) >= BUFFER_SIZE * 2 - 10
             w1 == IF flush THEN written \o obuf ELSE written
             b1 == IF flush THEN <<>> ELSE obuf
             wrapNow == wrap > 0 /\ column + 1 >= wrap
             b2 == IF wrapNow THEN b1 \o <<enc[i + 1], NL>> ELSE Append(b1, enc[i + 1])
         IN  Z85Put(enc, i + 1, output_len, b2, w1,
                    IF wrapNow THEN 0 ELSE column + 1, wrap)

\* one iteration of encode_z85's chunk loop; the fread of a block of
\* BUFFER_SIZE bytes opens it and the flush of output_buffer closes it
Z85EncodeChunk ==
    /\ pc = "encode"
    /\ in_pos < Len(input)
    /\ LET blk == BUFFER_SIZE * (in_pos \div BUFFER_SIZE)
           bytes_read == Min(BUFFER_SIZE, Len(input) - blk)
           pos == in_pos - blk
           chunk_size == IF pos + ENCODE_CHUNK <= bytes_read
                         THEN ENCODE_CHUNK ELSE bytes_read - pos
           chunk == SubSeq(input, in_pos + 1, in_pos + chunk_size)
           enc == Z85Digits(Z85Pack(chunk, 0, U32Zero), DECODE_CHUNK - 1,
                            <<0, 0, 0, 0, 0>>)
           output_len == IF chunk_size = ENCODE_CHUNK THEN DECODE_CHUNK
                         ELSE chunk_size + 1
           p == Z85Put(enc, 0, output_len, output_buffer, out, col_count, wrap_cols)
       IN  /\ in_pos' = in_pos + chunk_size
           /\ col_count' = p.column
           /\ IF pos + ENCODE_CHUNK >= bytes_read
              THEN out' = p.out \o p.output_buffer /\ output_buffer' = <<>>
              ELSE out' = p.out /\ output_buffer' = p.output_buffer
    /\ UNCHANGED <<pc, input, wrap_cols, enc_result, rd, dout, dec_result, stderr,
                   a85vars, wrapped, accvars, ignore_garbage, dnavars, textvars>>

\* fread returns 0: the final newline and the return
Z85EncodeEnd ==
    /\ pc = "encode"
    /\ in_pos >= Len(input)
    /\ out' = IF wrap_cols > 0 /\ col_count > 0 THEN Append(out, NL) ELSE out
    /\ enc_result' = 0
    /\ pc' = "decode"
    /\ UNCHANGED <<input, in_pos, wrap_cols, col_count, rd, dout, dec_result, stderr,
                   a85vars, wrapped, accvars, z85vars, dnavars, textvars>>

\* output_buffer[output_pos + j] = value & 0xFF; value >>= 8, j = n-1..0
Z85Bytes(val, n) == [ j \in 1..n |-> U32Byte(val, n - j) ]

\* one character of decode_z85's input
Z85DecodeChar ==
    /\ pc = "decode"
    /\ rd < Len(out)
    /\ rd' = rd + 1
    /\ LET c == out[rd + 1] IN
       IF IsSpace(c)
       THEN UNCHANGED <<pc, value, count, output_buffer, dout, dec_result, stderr>>
       ELSE IF z85_decoder[c + 1] = -1
       THEN IF ignore_garbage
            THEN UNCHANGED <<pc, value, count, output_buffer, dout, dec_result, stderr>>
            ELSE /\ stderr' = Append(stderr, "invalid character in input")
                 /\ dec_result' = 1
                 /\ pc' = "done"
                 /\ UNCHANGED <<value, count, output_buffer, dout>>
       ELSE LET v == U32MulAdd85(value, z85_decoder[c + 1]) IN
            IF count + 1 = DECODE_CHUNK
            THEN LET flush == Len(output_buffer) + ENCODE_CHUNK >= BUFFER_SIZE IN
                 /\ dout' = IF flush THEN dout \o output_buffer ELSE dout
                 /\ output_buffer' = (IF flush THEN <<>> ELSE output_buffer)
                                        \o Z85Bytes(v, ENCODE_CHUNK)
                 /\ value' = U32Zero
                 /\ count' = 0
                 /\ UNCHANGED <<pc, dec_result, stderr>>
            ELSE /\ value' = v
                 /\ count' = count + 1
                 /\ UNCHANGED <<pc, output_buffer, dout, dec_result, stderr>>
    /\ UNCHANGED <<input, in_pos, wrap_cols, col_count, out, enc_result,
                   a85vars, wrapped, ignore_garbage, dnavars, textvars>>

\* while (count < DECODE_CHUNK) { value = value * 85 + 84; count++; }
RECURSIVE Z85PadLoop(_, _)
Z85PadLoop(val, cnt) ==
    IF cnt >= DECODE_CHUNK THEN [value |-> val, count |-> cnt]
    ELSE Z85PadLoop(U32MulAdd85(val, 84), cnt + 1)

\* end of input: the incomplete final group, the last flush and the return
Z85DecodeEnd ==
    /\ pc = "decode"
    /\ rd >= Len(out)
    /\ pc' = "done"
    /\ IF count = 1
       THEN /\ stderr' = Append(stderr, "invalid input: incomplete final group")
            /\ dec_result' = 1
            /\ UNCHANGED <<value, count, output_buffer, dout>>
       ELSE IF count > 0
       THEN LET p == Z85PadLoop(value, count)
                output_bytes == p.count - 1
            IN  \* flushed before the group when the buffer is nearly full,
                \* after it otherwise: the same bytes on the stream
                /\ dout' = dout \o output_buffer \o Z85Bytes(p.value, output_bytes)
                /\ output_buffer' = <<>>
                /\ value' = U32Zero
                /\ count' = p.count
                /\ dec_result' = 0
                /\ UNCHANGED stderr
       ELSE /\ dout' = dout \o output_buffer
            /\ output_buffer' = <<>>
            /\ dec_result' = 0
            /\ UNCHANGED <<value, count, stderr>>
    /\ UNCHANGED <<input, in_pos, wrap_cols, col_count, out, enc_result, rd,
                   a85vars, wrapped, ignore_garbage, dnavars, textvars>>

\* main(): parse_arguments, then encode_z85, then decode_z85 on its output
InitBase85 ==
    /\ pc = "encode"
    /\ input \in Inputs
    /\ in_pos = 0
    /\ wrap_cols \in 0..MaxWrap
    /\ col_count = 0
    /\ out = <<>>
    /\ enc_result = 0
    /\ rd = 0
    /\ dout = <<>>
    /\ dec_result = 0
    /\ stderr = <<>>
    /\ ignore_garbage \in BOOLEAN
    /\ output_buffer = <<>>
    /\ A85Idle /\ AccIdle /\ DnaIdle /\ TextIdle

NextBase85 == Z85EncodeChunk \/ Z85EncodeEnd \/ Z85DecodeChar \/ Z85DecodeEnd

SpecBase85 == InitBase85 /\ [][NextBase85]_vars

\* decode_z85 alone on texts of alphabet characters and line breaks:
\* '0' is digit 0, '%' digit 82, '#' digit 84 in both tables
Z85CharSample == { 48, 37, 35, 10 }

RECURSIVE TextsOver(_, _)
TextsOver(chars, n) ==
    IF n = 0 THEN { <<>> }
    ELSE LET shorter == TextsOver(chars, n - 1) IN
         shorter \cup { Append(t, c) : t \in { u \in shorter : Len(u) = n - 1 },
                                        c \in chars }

InitBase85Dec ==
    /\ pc = "decode"
    /\ input = <<>>
    /\ in_pos = 0
    /\ wrap_cols = 0
    /\ col_count = 0
    /\ out \in TextsOver(Z85CharSample, MaxText)
    /\ enc_result = 0
    /\ rd = 0
    /\ dout = <<>>
    /\ dec_result = 0
    /\ stderr = <<>>
    /\ ignore_garbage = FALSE
    /\ output_buffer = <<>>
    /\ A85Idle /\ AccIdle /\ DnaIdle /\ TextIdle

NextBase85Dec == Z85DecodeChar \/ Z85DecodeEnd

SpecBase85Dec == InitBase85Dec /\ [][NextBase85Dec]_vars

\* decode_z85 on every text of a single byte
InitZ85Symbol ==
    /\ pc = "decode"
    /\ input = <<>>
    /\ in_pos = 0
    /\ wrap_cols = 0
    /\ col_count = 0
    /\ out \in { <<b>> : b \in 0..255 }
    /\ enc_result = 0
    /\ rd = 0
    /\ dout = <<>>
    /\ dec_result = 0
    /\ stderr = <<>>
    /\ ignore_garbage = FALSE
    /\ output_buffer = <<>>
    /\ A85Idle /\ AccIdle /\ DnaIdle /\ TextIdle

SpecZ85Symbol == InitZ85Symbol /\ [][NextBase85Dec]_vars

\* decode_ascii85 alone on texts of '!' (digit 0), 'u' (digit 84), the
\* markers 'z' and 'y', and newline
MaxA85Text == 6
A85CharSample == { 33, 117, CharZ, CharY, NL }

InitAscii85Dec ==
    /\ pc = "decode"
    /\ input = <<>>
    /\ in_pos = 0
    /\ wrap_cols = 0
    /\ col_count = 0
    /\ out \in TextsOver(A85CharSample, MaxA85Text)
    /\ enc_result = RESULT_SUCCESS
    /\ rd = 0
    /\ dout = <<>>
    /\ dec_result = RESULT_SUCCESS
    /\ stderr = <<>>
    /\ use_z = FALSE
    /\ use_y = FALSE
    /\ buffer = <<>>
    /\ encoded = <<>>
    /\ decoded \in { <<g, g, g, g>> : g \in Garbage }
    /\ line_length = 0
    /\ wrapped = NoRun
    /\ AccIdle /\ Z85Idle /\ DnaIdle /\ TextIdle

NextAscii85Dec == A85DecodeChar \/ A85DecodeEnd

SpecAscii85Dec == InitAscii85Dec /\ [][NextAscii85Dec]_vars

\* decode_ascii85's position in its input and its locals
A85DecState ==
    [rd |-> rd, buffer |-> buffer, decoded |-> decoded, dout |-> dout,
     line_length |-> line_length, result |-> RESULT_SUCCESS, stderr |-> stderr,
     returned |-> FALSE]

\* decode_ascii85 returns res from inside the loop after the message msg
A85Return(r, res, msg) ==
    [r EXCEPT !.result = res, !.returned = TRUE,
              !.stderr = IF msg = "" THEN r.stderr ELSE Append(r.stderr, msg)]

\* one iteration of decode_ascii85's fgetc loop from r; no iteration when
\* the loop has ended
A85DecodeIter(r) ==
    IF r.returned \/ r.rd >= Len(out) THEN r
    ELSE LET c == out[r.rd + 1]
             n == [r EXCEPT !.rd = r.rd + 1]
             t == [n EXCEPT !.line_length = r.line_length + 1]
         IN  IF IsA85Space(c)
             THEN [n EXCEPT !.line_length = IF c = NL THEN 0 ELSE r.line_length]
             ELSE IF t.line_length > MAX_LINE_LENGTH
             THEN A85Return(t, RESULT_ERROR_DECODE, "line too long")
             ELSE IF c = CharZ \/ c = CharY
             THEN IF Len(r.buffer) > 0
                  THEN A85Return(t, RESULT_ERROR_DECODE,
                                 "compression character in middle of group")
                  ELSE LET g == decode_group(<<c>>, 1, r.decoded) IN
                       IF g.result # RESULT_SUCCESS
                       THEN A85Return(t, g.result, "")
                       ELSE [t EXCEPT !.decoded = g.output,
                                      !.dout = r.dout \o SubSeq(g.output, 1, g.output_len)]
             ELSE IF ascii85_decode_char(c) >= 0
             THEN IF Len(r.buffer) >= ASCII85_ENCODED_SIZE
                  THEN A85Return(t, RESULT_ERROR_DECODE, "buffer overflow")
                  ELSE IF Len(r.buffer) + 1 = ASCII85_ENCODED_SIZE
                  THEN LET g == decode_group(Append(r.buffer, c), ASCII85_ENCODED_SIZE,
                                             r.decoded) IN
                       IF g.result # RESULT_SUCCESS
                       THEN A85Return([t EXCEPT !.buffer = Append(r.buffer, c)],
                                      g.result, "invalid ASCII85 sequence")
                       ELSE [t EXCEPT !.decoded = g.output,
                                      !.dout = r.dout \o SubSeq(g.output, 1, g.output_len),
                                      !.buffer = <<>>]
                  ELSE [t EXCEPT !.buffer = Append(r.buffer, c)]
             ELSE [t EXCEPT !.stderr = Append(r.stderr, "ignoring invalid character")]

\* n iterations of the loop from r, one after the other, n halved
RECURSIVE A85DecodeIters(_, _)
A85DecodeIters(r, n) ==
    IF n = 0 THEN r
    ELSE IF n = 1 THEN A85DecodeIter(r)
    ELSE Only({ A85DecodeIters(t, n - (n \div 2)) :
                t \in { A85DecodeIters(r, n \div 2) } })

\* after the loop: the remaining partial group and the return
A85DecodeFinal(r) ==
    IF r.returned THEN r
    ELSE IF Len(r.buffer) = 0 THEN A85Return(r, RESULT_SUCCESS, "")
    ELSE IF Len(r.buffer) < 2
    THEN A85Return(r, RESULT_ERROR_DECODE, "incomplete ASCII85 group at end")
    ELSE LET g == decode_group(r.buffer, Len(r.buffer), r.decoded) IN
         IF g.result # RESULT_SUCCESS
         THEN A85Return(r, g.result, "invalid final ASCII85 group")
         ELSE A85Return([r EXCEPT !.decoded = g.output,
                                  !.dout = r.dout \o SubSeq(g.output, 1, g.output_len)],
                        RESULT_SUCCESS, "")

\* a whole call of decode_ascii85 as one step: the loop runs once for every
\* character of the input unless an iteration returns
A85Decode ==
    /\ UNCHANGED <<accvars, z85vars, dnavars, textvars>>
    /\ pc = "decode"
    /\ \E r \in { A85DecodeFinal(t) : t \in { A85DecodeIters(A85DecState, Len(out) - rd) } } :
           /\ rd' = r.rd
           /\ buffer' = r.buffer
           /\ decoded' = r.decoded
           /\ dout' = r.dout
           /\ line_length' = r.line_length
           /\ dec_result' = r.result
           /\ stderr' = r.stderr
    /\ pc' = "done"
    /\ UNCHANGED <<input, in_pos, wrap_cols, col_count, out, enc_result,
                   use_z, use_y, encoded, wrapped>>

\* a text without one of its whitespace characters, or without all of them
A85Respaced(text) ==
    { SubSeq(text, 1, i - 1) \o SubSeq(text, i + 1, Len(text)) :
        i \in { j \in 1..Len(text) : IsA85Space(text[j]) } }
    \cup { SelectSeq(text, LAMBDA c : ~IsA85Space(c)) }

\* main() run again with -d on the same text with whitespace deleted; the
\* output and the result of the run before are kept in wrapped
A85RunRespaced ==
    /\ UNCHANGED <<accvars, z85vars, dnavars, textvars>>
    /\ pc = "done"
    /\ ~wrapped.done
    /\ wrapped' = [done |-> TRUE, out |-> dout, result |-> dec_result]
    /\ out' \in A85Respaced(out)
    /\ pc' = "decode"
    /\ rd' = 0
    /\ dout' = <<>>
    /\ dec_result' = RESULT_SUCCESS
    /\ stderr' = <<>>
    /\ buffer' = <<>>
    /\ line_length' = 0
    /\ UNCHANGED <<input, in_pos, wrap_cols, col_count, enc_result,
                   use_z, use_y, encoded, decoded>>

\* decode_ascii85 on short texts of '!', 'u' and whitespace, and on lines
\* of '!' around MAX_LINE_LENGTH characters broken once in the middle
MaxSpaced == 3
A85SpacedSample == { 33, 117, 32, 9, 13, NL }

Bangs(n) == SubSeq([i \in 1..n |-> 33], 1, n)

A85BrokenLines ==
    { Bangs((ASCII85_ENCODED_SIZE * n) \div 2) \o <<NL>>
        \o Bangs(ASCII85_ENCODED_SIZE * n - (ASCII85_ENCODED_SIZE * n) \div 2) :
        n \in (LongGroups - 1)..LongGroups }

InitAscii85Spaced ==
    /\ pc = "decode"
    /\ input = <<>>
    /\ in_pos = 0
    /\ wrap_cols = 0
    /\ col_count = 0
    /\ out \in TextsOver(A85SpacedSample, MaxSpaced) \cup A85BrokenLines
    /\ enc_result = RESULT_SUCCESS
    /\ rd = 0
    /\ dout = <<>>
    /\ dec_result = RESULT_SUCCESS
    /\ stderr = <<>>
    /\ use_z = FALSE
    /\ use_y = FALSE
    /\ buffer = <<>>
    /\ encoded = <<>>
    /\ decoded \in { <<g, g, g, g>> : g \in Garbage }
    /\ line_length = 0
    /\ wrapped = NoRun
    /\ AccIdle /\ Z85Idle /\ DnaIdle /\ TextIdle

NextAscii85Spaced == A85Decode \/ A85RunRespaced

SpecAscii85Spaced == InitAscii85Spaced /\ [][NextAscii85Spaced]_vars

(***************************************************************************)
(* dna.c                                                                   *)
(***************************************************************************)
NUCLEOTIDES_PER_BYTE == 4
BITS_PER_NUCLEOTIDE == 2
EXIT_SUCCESS == 0

\* toupper() in the C locale
ToUpper(c) == IF c >= 97 /\ c <= 122 THEN c - 32 ELSE c

\* 'A' <-> 'T', 'G' <-> 'C', anything else unchanged
get_complement_one_way(base) ==
    CASE ToUpper(base) = 65 -> 84
      [] ToUpper(base) = 84 -> 65
      [] ToUpper(base) = 71 -> 67
      [] OTHER -> base

get_complement(base) ==
    CASE ToUpper(base) = 65 -> 84
      [] ToUpper(base) = 84 -> 65
      [] ToUpper(base) = 71 -> 67
      [] ToUpper(base) = 67 -> 71
      [] OTHER -> base

bits_to_nucleotide(bits, map) == ToUpper(map[(bits % 4) + 1])

nucleotide_to_bits(nucleotide, map) ==
    LET hits == { i \in 0..(NUCLEOTIDES_PER_BYTE - 1) :
                    ToUpper(map[i + 1]) = ToUpper(nucleotide) }
    IN  IF hits = {} THEN -1
        ELSE CHOOSE i \in hits : \A j \in hits : i <= j

RECURSIVE Pow2(_)
Pow2(n) == IF n = 0 THEN 1 ELSE 2 * Pow2(n - 1)

\* the four nucleotides of byte b, from shift 6 down to 0, written with wrapping
RECURSIVE DnaPut(_, _, _, _)
DnaPut(b, shift, o, col) ==
    IF shift < 0 THEN [out |-> o, col_count |-> col]
    ELSE LET bits == (b \div Pow2(shift)) % 4
             n0 == bits_to_nucleotide(bits, mapping)
             nucleotide == IF use_complement THEN get_complement(n0) ELSE n0
             wrapNow == wrap_cols > 0 /\ col + 1 >= wrap_cols
         IN  DnaPut(b, shift - BITS_PER_NUCLEOTIDE,
                    IF wrapNow THEN o \o <<nucleotide, NL>> ELSE Append(o, nucleotide),
                    IF wrapNow THEN 0 ELSE col + 1)

\* one byte of encode_dna's input
DnaEncodeByte ==
    /\ pc = "encode"
    /\ in_pos < Len(input)
    /\ in_pos' = in_pos + 1
    /\ \E p \in { DnaPut(input[in_pos + 1], 6, <<>>, col_count) } :
           /\ out' = out \o p.out
           /\ col_count' = p.col_count
    /\ UNCHANGED <<pc, input, wrap_cols, enc_result, rd, dout, dec_result, stderr,
                   a85vars, wrapped, accvars, z85vars, dnavars, textvars>>

\* end of input: the final newline and the return
DnaEncodeEnd ==
    /\ pc = "encode"
    /\ in_pos >= Len(input)
    /\ out' = IF wrap_cols = 0 \/ col_count > 0 THEN Append(out, NL) ELSE out
    /\ enc_result' = EXIT_SUCCESS
    /\ pc' = "decode"
    /\ UNCHANGED <<input, in_pos, wrap_cols, col_count, rd, dout, dec_result, stderr,
                   a85vars, wrapped, accvars, z85vars, dnavars, textvars>>

\* one character of decode_dna's input
DnaDecodeChar ==
    /\ pc = "decode"
    /\ rd < Len(out)
    /\ rd' = rd + 1
    /\ LET c == out[rd + 1]
           nucleotide == IF dec_complement THEN get_complement(c) ELSE c
           bits == nucleotide_to_bits(nucleotide, mapping)
           packed == (byte * Pow2(BITS_PER_NUCLEOTIDE) + bits) % 256
       IN  IF IsSpace(c)
           THEN UNCHANGED <<byte, nucleotide_count, invalid_chars, dout, stderr>>
           ELSE IF bits < 0
           THEN /\ invalid_chars' = invalid_chars + 1
                /\ stderr' = IF invalid_chars + 1 <= 10
                             THEN Append(stderr, "ignoring invalid nucleotide")
                             ELSE stderr
                /\ UNCHANGED <<byte, nucleotide_count, dout>>
           ELSE IF nucleotide_count + 1 = NUCLEOTIDES_PER_BYTE
           THEN /\ dout' = Append(dout, packed)
                /\ byte' = 0
                /\ nucleotide_count' = 0
                /\ UNCHANGED <<invalid_chars, stderr>>
           ELSE /\ byte' = packed
                /\ nucleotide_count' = nucleotide_count + 1
                /\ UNCHANGED <<invalid_chars, dout, stderr>>
    /\ UNCHANGED <<pc, input, in_pos, wrap_cols, col_count, out, enc_result, dec_result,
                   a85vars, wrapped, accvars, z85vars, textvars,
                   mapping, use_complement, dec_complement>>

\* end of input: the incomplete byte, the warnings and the return
DnaDecodeEnd ==
    /\ pc = "decode"
    /\ rd >= Len(out)
    /\ pc' = "done"
    /\ dec_result' = EXIT_SUCCESS
    /\ LET shifted == (byte * Pow2(BITS_PER_NUCLEOTIDE
                                   * (NUCLEOTIDES_PER_BYTE - nucleotide_count))) % 256
           w1 == IF nucleotide_count > 0
                 THEN Append(stderr, "incomplete DNA sequence, padded with zeros")
                 ELSE stderr
       IN  /\ dout' = IF nucleotide_count > 0 THEN Append(dout, shifted) ELSE dout
           /\ byte' = IF nucleotide_count > 0 THEN shifted ELSE byte
           /\ stderr' = IF invalid_chars > 10
                        THEN Append(w1, "total invalid characters ignored") ELSE w1
    /\ UNCHANGED <<input, in_pos, wrap_cols, col_count, out, enc_result, rd,
                   a85vars, wrapped, accvars, z85vars, textvars,
                   mapping, use_complement, dec_complement, nucleotide_count,
                   invalid_chars>>

\* bytes 0x00, 0x1B, 0xE4, 0xFF: every 2-bit value in every position
ByteSample == { 0, 27, 228, 255 }

\* default mapping "atgc"
DefaultMapping == <<97, 116, 103, 99>>

\* main(): the options, then encode_dna, then decode_dna on its output
InitDna ==
    /\ pc = "encode"
    /\ input \in TextsOver(ByteSample, MaxBytes)
    /\ in_pos = 0
    /\ wrap_cols \in 0..MaxWrap
    /\ col_count = 0
    /\ out = <<>>
    /\ enc_result = EXIT_SUCCESS
    /\ rd = 0
    /\ dout = <<>>
    /\ dec_result = EXIT_SUCCESS
    /\ stderr = <<>>
    /\ mapping = DefaultMapping
    /\ use_complement \in BOOLEAN
    /\ dec_complement \in BOOLEAN
    /\ byte = 0
    /\ nucleotide_count = 0
    /\ invalid_chars = 0
    /\ A85Idle /\ AccIdle /\ Z85Idle /\ TextIdle

NextDna == DnaEncodeByte \/ DnaEncodeEnd \/ DnaDecodeChar \/ DnaDecodeEnd

SpecDna == InitDna /\ [][NextDna]_vars

(***************************************************************************)
(* Claims about ascii85.c                                                  *)
(***************************************************************************)
Man == <<77, 97, 110, 32>>

\* C1: for every input of whole 4-byte groups and every wrap setting, with
\* the markers disabled, encode_ascii85 succeeds and decode_ascii85 run on
\* its output succeeds and writes exactly the input.
C1_FullGroupRoundTrip ==
    (Len(input) % ASCII85_GROUP_SIZE = 0 /\ ~use_z /\ ~use_y) =>
        /\ pc # "encode" => enc_result = RESULT_SUCCESS
        /\ pc = "done" => dec_result = RESULT_SUCCESS /\ dout = input

\* C3: for every input whose length is not a multiple of 4, encoding and
\* then decoding succeeds and reproduces the input, byte for byte.
C3_ShortGroupRoundTrip ==
    (Len(input) % ASCII85_GROUP_SIZE # 0 /\ pc = "done") =>
        /\ enc_result = RESULT_SUCCESS
        /\ dec_result = RESULT_SUCCESS
        /\ dout = input

\* C4: "Man " is encoded as the five characters 9jqo^ (most significant
\* digit first, digit d as the character '!' + d), and decoding them gives
\* "Man " back.
C4_ManVector ==
    input = Man =>
        /\ pc # "encode" => (enc_result = RESULT_SUCCESS
                             /\ StripNL(out) = <<57, 106, 113, 111, 94>>)
        /\ pc = "done" => (dec_result = RESULT_SUCCESS /\ dout = Man)

C4_Witness ==
    pc = "done" /\ input = Man /\ out = <<57, 106, 113, 111, 94, 10>> /\ dout = Man

\* the exact (untruncated) base-85 value of the first k digits
RECURSIVE WideFold(_, _)
WideFold(digits, k) ==
    IF k = 0 THEN U32Zero ELSE WideMulAdd85(WideFold(digits, k - 1), digits[k])

\* the digits of a group, each missing position padded by 84
PaddedDigits(buf) ==
    [ k \in 1..ASCII85_ENCODED_SIZE |->
        IF k <= Len(buf) THEN ascii85_decode_char(buf[k]) ELSE 84 ]

ExceedsU32(w) == w[1] >= Half

\* C5: decode_group on 2 to 5 alphabet characters, missing positions padded
\* by digit 84: while it runs the 32-bit accumulator equals the exact
\* base-85 value of the digits taken so far (it never wraps, in the digit
\* loop or in the padding loop), and it returns the decode error exactly
\* when the exact value of the five digits exceeds 0xFFFFFFFF.
C5_OverflowExact ==
    /\ pc = "group" => value = WideFold(PaddedDigits(buffer), count)
    /\ pc = "returned" =>
          (dec_result = RESULT_ERROR_DECODE
             <=> ExceedsU32(WideFold(PaddedDigits(buffer), ASCII85_ENCODED_SIZE)))
    /\ pc = "returned" => dec_result \in {RESULT_SUCCESS, RESULT_ERROR_DECODE}

\* an overflow found by the padding loop, after digits that fit
C5_Witness ==
    /\ pc = "returned"
    /\ dec_result = RESULT_ERROR_DECODE
    /\ count >= Len(buffer)
    /\ Len(buffer) < ASCII85_ENCODED_SIZE

\* C7: with -z a full all-zero group is encoded as the single character z,
\* with -y a full all-space group as y; a marker is written for no other
\* group and never with its flag off; the decoder turns z into four 0x00
\* bytes and y into four 0x20 bytes.
C7_Markers ==
    /\ (pc = "encode" /\ buffer # <<>>) =>
          /\ (use_z /\ buffer = <<0, 0, 0, 0>>) => encoded = <<CharZ>>
          /\ (use_y /\ buffer = <<32, 32, 32, 32>>) => encoded = <<CharY>>
          /\ \A i \in 1..Len(encoded) :
                /\ encoded[i] = CharZ => (use_z /\ buffer = <<0, 0, 0, 0>>)
                /\ encoded[i] = CharY => (use_y /\ buffer = <<32, 32, 32, 32>>)
    /\ \A i \in 1..Len(out) :
          /\ out[i] = CharZ => use_z
          /\ out[i] = CharY => use_y
    /\ (pc = "decode" /\ rd > 0 /\ out[rd] = CharZ) =>
          /\ Len(dout) >= ASCII85_GROUP_SIZE
          /\ SubSeq(dout, Len(dout) - 3, Len(dout)) = <<0, 0, 0, 0>>
    /\ (pc = "decode" /\ rd > 0 /\ out[rd] = CharY) =>
          /\ Len(dout) >= ASCII85_GROUP_SIZE
          /\ SubSeq(dout, Len(dout) - 3, Len(dout)) = <<32, 32, 32, 32>>

C7_Witness ==
    /\ pc = "done"
    /\ use_z /\ use_y
    /\ StripNL(out) = <<CharZ, CharY>>
    /\ dout = <<0, 0, 0, 0, 32, 32, 32, 32>>

(***************************************************************************)
(* Claims about base85.c, the wrapping encoders and dna.c                  *)
(***************************************************************************)

\* C2: for every input of whole 4-byte groups and every wrap setting,
\* encode_z85 returns 0 and decode_z85 without --ignore-garbage, run on its
\* output, returns 0 and writes exactly the input.
C2_Z85FullGroupRoundTrip ==
    (Len(input) % ENCODE_CHUNK = 0 /\ ~ignore_garbage) =>
        /\ pc # "encode" => enc_result = 0
        /\ pc = "done" => dec_result = 0 /\ dout = input

\* the digit a character stands for in z85_alphabet
Z85Digit(c) == CHOOSE d \in 0..84 : z85_alphabet[d + 1] = c

\* the characters of a text that are not whitespace, and their k-th group
Z85Significant(text) == SelectSeq(text, LAMBDA c : ~IsSpace(c))
Z85Group(sig, k) ==
    SubSeq(sig, DECODE_CHUNK * k + 1, Min(DECODE_CHUNK * k + DECODE_CHUNK, Len(sig)))

\* the exact value of a group, each missing position padded by digit 84
Z85Exact(g) ==
    WideFold([ k \in 1..DECODE_CHUNK |->
                 IF k <= Len(g) THEN Z85Digit(g[k]) ELSE 84 ], DECODE_CHUNK)

\* the groups of two or more characters whose exact value exceeds 0xFFFFFFFF
Z85TooBig(sig) ==
    { k \in 0..(Len(sig) \div DECODE_CHUNK) :
        /\ Len(Z85Group(sig, k)) >= 2
        /\ ExceedsU32(Z85Exact(Z85Group(sig, k))) }

\* C6: when a group of the text, full or a final short one padded by digit
\* 84, has a base-85 value above 0xFFFFFFFF, decode_z85 returns nonzero and
\* writes no byte for that group or any later one.
C6_Z85OverflowRejected ==
    pc = "done" =>
        LET bad == Z85TooBig(Z85Significant(out)) IN
        bad # {} =>
            /\ dec_result # 0
            /\ \A k \in bad : Len(dout) <= ENCODE_CHUNK * k

\* newlines stand exactly after every n-th character and at the end
WrappedLines(o, n) ==
    \A i \in 1..Len(o) : (o[i] = NL) <=> (i % (n + 1) = 0 \/ i = Len(o))

\* C8: with wrap N > 0 the encoder succeeds and writes lines of exactly N
\* characters, the last of 1 to N; encoding the same input with wrapping
\* disabled succeeds too and gives the same characters, newlines apart.
C8_WrapLines ==
    /\ (pc = "decode" /\ wrap_cols > 0) =>
          enc_result = RESULT_SUCCESS /\ WrappedLines(out, wrap_cols)
    /\ (pc = "decode" /\ wrapped.done) =>
          /\ wrapped.result = RESULT_SUCCESS
          /\ enc_result = RESULT_SUCCESS
          /\ StripNL(out) = StripNL(wrapped.out)

EndsWithOneNewline(o) ==
    /\ Len(o) >= 1
    /\ o[Len(o)] = NL
    /\ Len(o) >= 2 => o[Len(o) - 1] # NL

\* C9: for every input, the empty one included, and every wrap setting the
\* encoder's output ends with exactly one newline.
C9_EndsWithOneNewline ==
    pc # "encode" => EndsWithOneNewline(out)

\* C10: with the default mapping and complement off on both sides or on on
\* both sides, for every input and wrap setting encode_dna and decode_dna
\* succeed and decode_dna writes exactly the input.
C10_DnaRoundTrip ==
    (use_complement = dec_complement /\ pc = "done") =>
        /\ enc_result = EXIT_SUCCESS
        /\ dec_result = EXIT_SUCCESS
        /\ dout = input
        /\ stderr = <<>>

\* bytes 0x1B 0xE4 with complement on both sides and a newline after every
\* nucleotide: TACG GCAT
C10_Witness ==
    /\ pc = "done"
    /\ use_complement /\ dec_complement
    /\ wrap_cols = 1
    /\ input = <<27, 228>>
    /\ StripNL(out) = <<84, 65, 67, 71, 71, 67, 65, 84>>
    /\ dout = input

(***************************************************************************)
(* binary.c: decode_file.  The shift register is the variable byte.  The   *)
(* test of total_bits against LONG_MAX cannot succeed on the inputs here.  *)
(***************************************************************************)
notbin == <<a85vars, wrapped, accvars, z85vars, mapping, use_complement,
            dec_complement, nucleotide_count, invalid_chars, factvars, morsevars,
            braillevars, leetvars, dancevars>>

\* signal_handler(): SIGINT or SIGTERM arrives between two turns of the loop
BinSignal ==
    /\ pc = "decode"
    /\ ~interrupted
    /\ interrupted' = TRUE
    /\ UNCHANGED <<commonvars, byte, bit_count, total_bits, notbin>>

\* one turn of decode_file's fgetc loop; late: the signal arrives during
\* the turn, after the test at its top and before safe_fputc
BinDecodeChar ==
    /\ pc = "decode"
    /\ rd < Len(out)
    /\ rd' = rd + 1
    /\ LET bit_char == out[rd + 1]
           shifted == ((byte * 2) % 256) + (bit_char - 48)
       IN  IF interrupted
           THEN /\ stderr' = Append(stderr, "Operation interrupted")
                /\ dec_result' = -1
                /\ pc' = "done"
                /\ UNCHANGED <<byte, bit_count, total_bits, dout, interrupted>>
           ELSE IF bit_char # 48 /\ bit_char # 49
           THEN UNCHANGED <<byte, bit_count, total_bits, dout, dec_result, stderr,
                            pc, interrupted>>
           ELSE /\ total_bits' = total_bits + 1
                /\ UNCHANGED stderr
                /\ IF bit_count + 1 = 8
                   THEN \E late \in BOOLEAN :
                           /\ interrupted' = late
                           /\ IF late
                              THEN /\ dec_result' = -1
                                   /\ pc' = "done"
                                   /\ byte' = shifted
                                   /\ bit_count' = bit_count + 1
                                   /\ UNCHANGED dout
                              ELSE /\ dout' = Append(dout, shifted)
                                   /\ byte' = 0
                                   /\ bit_count' = 0
                                   /\ UNCHANGED <<dec_result, pc>>
                   ELSE /\ byte' = shifted
                        /\ bit_count' = bit_count + 1
                        /\ UNCHANGED <<dout, dec_result, pc, interrupted>>
    /\ UNCHANGED <<input, in_pos, wrap_cols, col_count, out, enc_result, notbin>>

\* fgetc returns EOF: the warning, fflush and the return
BinDecodeEnd ==
    /\ pc = "decode"
    /\ rd >= Len(out)
    /\ pc' = "done"
    /\ stderr' = IF bit_count # 0
                 THEN Append(stderr, "incomplete byte at end of input")
                 ELSE stderr
    /\ dec_result' = 0
    /\ UNCHANGED <<input, in_pos, wrap_cols, col_count, out, enc_result, rd, dout,
                   byte, binvars, notbin>>

\* texts of '0', '1', space and 'x', alone and after one or two whole bytes
MaxBits == 3
BinCharSample == { 48, 49, 32, 120 }
BinBytes == { <<>>, <<48, 49, 48, 48, 48, 48, 48, 49>>,
              <<49, 49, 49, 49, 49, 49, 49, 49, 10, 48, 48, 48, 48, 48, 48, 48, 48>> }

\* main(): -d, the input before decode_file runs
InitBinaryDec ==
    /\ pc = "decode"
    /\ input = <<>>
    /\ in_pos = 0
    /\ wrap_cols = 0
    /\ col_count = 0
    /\ out \in { b \o t : b \in BinBytes, t \in TextsOver(BinCharSample, MaxBits) }
    /\ enc_result = 0
    /\ rd = 0
    /\ dout = <<>>
    /\ dec_result = 0
    /\ stderr = <<>>
    /\ A85Idle /\ AccIdle /\ Z85Idle /\ DnaIdle /\ TextIdle

NextBinaryDec == BinSignal \/ BinDecodeChar \/ BinDecodeEnd

SpecBinaryDec == InitBinaryDec /\ [][NextBinaryDec]_vars

\* decode_dna alone on texts of the default mapping's nucleotides, newline
\* and 'x'
MaxNucleotides == 5
DnaCharSample == { 65, 84, 71, 67, 10, 120 }

InitDnaDec ==
    /\ pc = "decode"
    /\ input = <<>>
    /\ in_pos = 0
    /\ wrap_cols = 0
    /\ col_count = 0
    /\ out \in TextsOver(DnaCharSample, MaxNucleotides)
    /\ enc_result = EXIT_SUCCESS
    /\ rd = 0
    /\ dout = <<>>
    /\ dec_result = EXIT_SUCCESS
    /\ stderr = <<>>
    /\ mapping = DefaultMapping
    /\ use_complement = FALSE
    /\ dec_complement \in BOOLEAN
    /\ byte = 0
    /\ nucleotide_count = 0
    /\ invalid_chars = 0
    /\ A85Idle /\ AccIdle /\ Z85Idle /\ TextIdle

NextDnaDec == DnaDecodeChar \/ DnaDecodeEnd

SpecDnaDec == InitDnaDec /\ [][NextDnaDec]_vars

(***************************************************************************)
(* factoradic.c.  An unsigned long long is a sequence of BigLen limbs in    *)
(* base BigBase, least significant limb first, so that the 64-bit bound    *)
(* ULLONG_MAX and every intermediate product are exact.                    *)
(***************************************************************************)
BigBase == 10000
BigLen == 6
MAX_DIGITS == 20
LINE_SIZE == 256

Big(n) == <<n % BigBase, (n \div BigBase) % BigBase,
            n \div (BigBase * BigBase), 0, 0, 0>>
BigZero == Big(0)
\* 18446744073709551615
ULLONG_MAX == <<1615, 955, 737, 6744, 1844, 0>>
\* 2^64, the modulus of unsigned long long arithmetic
TwoTo64 == <<1616, 955, 737, 6744, 1844, 0>>

RECURSIVE BigAddFrom(_, _, _, _)
BigAddFrom(a, b, i, carry) ==
    IF i > BigLen THEN <<>>
    ELSE LET s == a[i] + b[i] + carry
         IN  <<s % BigBase>> \o BigAddFrom(a, b, i + 1, s \div BigBase)
BigAdd(a, b) == BigAddFrom(a, b, 1, 0)

\* a - b for a >= b
RECURSIVE BigSubFrom(_, _, _, _)
BigSubFrom(a, b, i, borrow) ==
    IF i > BigLen THEN <<>>
    ELSE LET s == a[i] - b[i] - borrow
         IN  IF s < 0 THEN <<s + BigBase>> \o BigSubFrom(a, b, i + 1, 1)
             ELSE <<s>> \o BigSubFrom(a, b, i + 1, 0)
BigSub(a, b) == BigSubFrom(a, b, 1, 0)

\* a * k for a small k
RECURSIVE BigMulFrom(_, _, _, _)
BigMulFrom(a, k, i, carry) ==
    IF i > BigLen THEN <<>>
    ELSE LET s == a[i] * k + carry
         IN  <<s % BigBase>> \o BigMulFrom(a, k, i + 1, s \div BigBase)
BigMulSmall(a, k) == BigMulFrom(a, k, 1, 0)

\* a / k for a small k > 0
RECURSIVE BigDivFrom(_, _, _, _)
BigDivFrom(a, k, i, rem) ==
    IF i = 0 THEN <<>>
    ELSE LET cur == rem * BigBase + a[i]
         IN  BigDivFrom(a, k, i - 1, cur % k) \o <<cur \div k>>
BigDivSmall(a, k) == BigDivFrom(a, k, BigLen, 0)

RECURSIVE BigLtFrom(_, _, _)
BigLtFrom(a, b, i) ==
    IF i = 0 THEN FALSE
    ELSE IF a[i] # b[i] THEN a[i] < b[i]
    ELSE BigLtFrom(a, b, i - 1)
BigLt(a, b) == BigLtFrom(a, b, BigLen)
BigLe(a, b) == ~BigLt(b, a)

\* a / b and a % b for b > 0 and a quotient that is an int
RECURSIVE BigDivMod(_, _)
BigDivMod(a, b) ==
    IF BigLt(a, b) THEN [q |-> 0, r |-> a]
    ELSE LET t == BigDivMod(BigSub(a, b), b)
         IN  [q |-> t.q + 1, r |-> t.r]

\* the value an unsigned long long keeps of a
RECURSIVE U64Wrap(_)
U64Wrap(a) == IF BigLt(ULLONG_MAX, a) THEN U64Wrap(BigSub(a, TwoTo64)) ELSE a

\* printf("%llu") and printf("%d") of a value >= 0
LimbDigits(l) == <<48 + (l \div 1000), 48 + ((l \div 100) % 10),
                   48 + ((l \div 10) % 10), 48 + (l % 10)>>
RECURSIVE StripZeros(_)
StripZeros(s) ==
    IF Len(s) > 1 /\ Head(s) = 48 THEN StripZeros(Tail(s)) ELSE s
RECURSIVE AllLimbDigits(_, _)
AllLimbDigits(a, i) ==
    IF i = 0 THEN <<>> ELSE LimbDigits(a[i]) \o AllLimbDigits(a, i - 1)
BigDecimal(a) == StripZeros(AllLimbDigits(a, BigLen))
IntDecimal(n) == BigDecimal(Big(n))

IsDigit(c) == c >= 48 /\ c <= 57

\* strtoull(s, NULL, 10) of a string of digits: ULLONG_MAX when out of range
RECURSIVE StrtoullFrom(_, _, _)
StrtoullFrom(s, i, acc) ==
    IF i > Len(s) THEN acc
    ELSE LET t == BigAdd(BigMulSmall(acc, 10), Big(s[i] - 48))
         IN  IF BigLt(ULLONG_MAX, t) THEN ULLONG_MAX
             ELSE StrtoullFrom(s, i + 1, t)
strtoull(s) == StrtoullFrom(s, 1, BigZero)

\* factorial(): 0 when the product does not fit
RECURSIVE factorial_loop(_, _, _)
factorial_loop(result, i, n) ==
    IF i > n THEN result
    ELSE IF BigLt(BigDivSmall(ULLONG_MAX, i), result) THEN BigZero
    ELSE factorial_loop(BigMulSmall(result, i), i + 1, n)
\* place values 0!, 1!, 2!, ... instead of 1!, 2!, 3!, ...
factorial_from_zero(n) ==
    IF n <= 2 THEN Big(1) ELSE factorial_loop(Big(1), 2, n - 1)
factorial(n) == IF n <= 1 THEN Big(1) ELSE factorial_loop(Big(1), 2, n)

\* the texts of the fprintf calls
TxtZeroSteps ==
    <<32, 40, 48, 32, 61, 32, 48, 32, 195, 151, 32, 49, 33, 41>>
TxtConverting ==
    <<67, 111, 110, 118, 101, 114, 116, 105, 110, 103, 32>>
TxtToFactoradic ==
    <<32, 116, 111, 32, 102, 97, 99, 116, 111, 114, 97, 100, 105, 99, 58, 10>>
TxtFromFactoradic ==
    <<32, 102, 114, 111, 109, 32, 102, 97, 99, 116, 111, 114, 97, 100, 105,
      99, 58, 10>>
TxtDivide ==
    <<32, 195, 183, 32>>
TxtTimes ==
    <<32, 195, 151, 32>>
TxtBangOpen ==
    <<33, 32, 40>>
TxtCloseEq ==
    <<41, 32, 61, 32>>
TxtRemainder ==
    <<32, 114, 101, 109, 97, 105, 110, 100, 101, 114, 32>>
TxtResult ==
    <<82, 101, 115, 117, 108, 116, 58, 32>>
TxtFactoradic ==
    <<32, 40, 102, 97, 99, 116, 111, 114, 97, 100, 105, 99, 41>>
TxtDecimal ==
    <<32, 40, 100, 101, 99, 105, 109, 97, 108, 41>>

\* the highest position is always the last place of the result buffer
FactMaxPosTop(num, max_pos) == MAX_DIGITS

\* decimal_to_factoradic(): the highest position whose factorial fits
RECURSIVE FactMaxPos(_, _)
FactMaxPos(num, max_pos) ==
    LET f == factorial(max_pos + 1)
    IN  IF BigLe(f, num) /\ f # BigZero THEN FactMaxPos(num, max_pos + 1)
        ELSE max_pos

\* decimal_to_factoradic(): the loop over the positions, from pos down to 1;
\* r is [remaining, result, o, e]: o the text written to output, e the
\* diagnostics written to stderr, ok FALSE once the function has returned early
RECURSIVE FactDigitLoop(_, _)
FactDigitLoop(r, pos) ==
    IF pos < 1 THEN r
    ELSE LET fact == factorial(pos)
             dm == BigDivMod(r.remaining, fact)
             digit == dm.q
         IN  IF digit > pos
             THEN [r EXCEPT !.ok = FALSE,
                            !.e = Append(@, "invalid digit for position")]
             ELSE FactDigitLoop(
                      [remaining |-> dm.r,
                       result |-> Append(r.result, 48 + digit),
                       o |-> IF verbose_mode
                             THEN r.o \o BigDecimal(r.remaining) \o TxtDivide
                                  \o IntDecimal(pos) \o TxtBangOpen
                                  \o BigDecimal(fact) \o TxtCloseEq
                                  \o IntDecimal(digit) \o TxtRemainder
                                  \o BigDecimal(dm.r) \o <<NL>>
                             ELSE r.o,
                       e |-> r.e,
                       ok |-> TRUE],
                      pos - 1)

decimal_to_factoradic(num) ==
    IF num = BigZero
    THEN [o |-> <<48>> \o (IF verbose_mode THEN TxtZeroSteps ELSE <<>>) \o <<NL>>,
          e |-> <<>>, printed |-> TRUE]
    ELSE LET max_pos == FactMaxPos(num, 1)
             r == FactDigitLoop(
                      [remaining |-> num, result |-> <<>>,
                       o |-> IF verbose_mode
                             THEN TxtConverting \o BigDecimal(num) \o TxtToFactoradic
                             ELSE <<>>,
                       e |-> <<>>, ok |-> TRUE],
                      max_pos)
         IN  IF ~r.ok THEN [o |-> r.o, e |-> r.e, printed |-> FALSE]
             ELSE [o |-> r.o \o (IF verbose_mode THEN TxtResult ELSE <<>>)
                         \o r.result
                         \o (IF verbose_mode THEN TxtFactoradic ELSE <<>>)
                         \o <<NL>>,
                   e |-> r.e, printed |-> TRUE]

\* factoradic_to_decimal(): the loop over the characters, from index i
\* (0-based) on; r is [result, o, e, ok]
RECURSIVE FactSumLoop(_, _, _)
FactSumLoop(factoradic, r, i) ==
    IF i >= Len(factoradic) THEN r
    ELSE LET c == factoradic[i + 1]
             digit == c - 48
             position == Len(factoradic) - i
             fact == factorial(position)
             contribution == U64Wrap(BigMulSmall(fact, digit))
         IN  IF ~IsDigit(c)
             THEN [r EXCEPT !.ok = FALSE,
                            !.e = Append(@, "invalid character in factoradic number")]
             ELSE IF digit > position
             THEN [r EXCEPT !.ok = FALSE,
                            !.e = Append(@, "digit exceeds maximum allowed")]
             ELSE IF BigLt(BigSub(ULLONG_MAX, contribution), r.result)
             THEN [r EXCEPT !.ok = FALSE,
                            !.e = Append(@, "number too large for conversion")]
             ELSE FactSumLoop(
                      factoradic,
                      [result |-> BigAdd(r.result, contribution),
                       o |-> IF verbose_mode
                             THEN r.o \o IntDecimal(digit) \o TxtTimes
                                  \o IntDecimal(position) \o TxtBangOpen
                                  \o BigDecimal(fact) \o TxtCloseEq
                                  \o BigDecimal(contribution) \o <<NL>>
                             ELSE r.o,
                       e |-> r.e,
                       ok |-> TRUE],
                      i + 1)

\* the result line written even after an early return
factoradic_to_decimal_no_return(factoradic) ==
    LET r == FactSumLoop(
                 factoradic,
                 [result |-> BigZero, o |-> <<>>, e |-> <<>>, ok |-> TRUE],
                 0)
    IN  [o |-> r.o \o BigDecimal(r.result) \o <<NL>>, e |-> r.e,
         printed |-> TRUE]

factoradic_to_decimal(factoradic) ==
    LET r == FactSumLoop(
                 factoradic,
                 [result |-> BigZero,
                  o |-> IF verbose_mode
                        THEN TxtConverting \o factoradic \o TxtFromFactoradic
                        ELSE <<>>,
                  e |-> <<>>, ok |-> TRUE],
                 0)
    IN  IF ~r.ok THEN [o |-> r.o, e |-> r.e, printed |-> FALSE]
        ELSE [o |-> r.o \o (IF verbose_mode THEN TxtResult ELSE <<>>)
                    \o BigDecimal(r.result)
                    \o (IF verbose_mode THEN TxtDecimal ELSE <<>>)
                    \o <<NL>>,
              e |-> r.e, printed |-> TRUE]

\* fgets(line, sizeof(line), input): the characters up to and including the
\* first newline, at most LINE_SIZE - 1 of them
fgets(stream, pos) ==
    LET avail == Min(Len(stream) - pos, LINE_SIZE - 1)
        ends == { k \in 1..avail : stream[pos + k] = NL }
        n == IF ends = {} THEN avail
             ELSE CHOOSE k \in ends : \A j \in ends : k <= j
    IN  SubSeq(stream, pos + 1, pos + n)

\* process_input(): the digits of line before the first '.' or ','
RECURSIVE CleanFrom(_, _, _)
CleanFrom(ln, i, cl) ==
    IF i > Len(ln) \/ Len(cl) >= LINE_SIZE - 1 THEN [clean |-> cl, found_decimal |-> FALSE]
    ELSE IF ln[i] = 0 THEN [clean |-> cl, found_decimal |-> FALSE]
    ELSE IF ln[i] = 46 \/ ln[i] = 44 THEN [clean |-> cl, found_decimal |-> TRUE]
    ELSE IF IsDigit(ln[i]) THEN CleanFrom(ln, i + 1, Append(cl, ln[i]))
    ELSE CleanFrom(ln, i + 1, cl)

\* process_input(): one turn of the loop over the lines
FactLine ==
    /\ pc = "lines"
    /\ in_pos < Len(input)
    /\ \E ln \in { fgets(input, in_pos) } :
       \E c \in { CleanFrom(ln, 1, <<>>) } :
          /\ in_pos' = in_pos + Len(ln)
          /\ clean' = c.clean
          /\ IF Len(c.clean) = 0
             THEN /\ stderr' = Append(stderr, "no valid digits found in input")
                  /\ UNCHANGED out
             ELSE \E r \in { IF decode_mode THEN factoradic_to_decimal(c.clean)
                             ELSE decimal_to_factoradic(strtoull(c.clean)) } :
                     /\ out' = out \o r.o
                     /\ stderr' = stderr \o r.e
                                  \o (IF c.found_decimal /\ verbose_mode
                                      THEN <<"truncated fractional part">>
                                      ELSE <<>>)
    /\ UNCHANGED <<pc, input, wrap_cols, col_count, enc_result, rd, dout,
                   dec_result, decode_mode, verbose_mode, notfact>>

\* process_input(): fgets finds the end of the input; main() returns
FactEnd ==
    /\ pc = "lines"
    /\ in_pos >= Len(input)
    /\ pc' = "done"
    /\ enc_result' = EXIT_SUCCESS
    /\ UNCHANGED <<input, in_pos, wrap_cols, col_count, out, rd, dout,
                   dec_result, stderr, factvars, notfact>>

MaxFactDigits == 3

\* digits 0, 1, 2, 3, 4 and 9: digits within and beyond positions 1 to 3
FactDigitSample == { 48, 49, 50, 51, 52, 57 }

\* the numbers of the documentation
FactVectors == {
    <<48>>,
    <<52, 54, 51>>,
    <<51, 52, 50, 48, 49>>,
    <<51, 52, 49, 48, 49>> }

\* lines with a fraction, with other characters, without digits, and empty
FactOddLines == {
    <<52, 54, 51, 46, 55, 53>>,
    <<52, 44, 54, 51>>,
    <<110, 61, 51, 52, 50, 48, 49, 33>>,
    <<97, 98, 99>>,
    <<>> }

FactInputs ==
    { ln \o <<NL>> : ln \in TextsOver(FactDigitSample, MaxFactDigits) \ { <<>> } }
    \cup { a \o <<NL>> : a \in FactVectors \cup FactOddLines }
    \cup { a \o <<NL>> \o b \o <<NL>> : a, b \in FactVectors \cup FactOddLines }
    \cup { a \o <<NL>> \o b : a \in FactVectors, b \in FactVectors }

\* main(): the options and the input before process_input runs
InitFactoradic ==
    /\ pc = "lines"
    /\ input \in FactInputs
    /\ in_pos = 0
    /\ wrap_cols = 0
    /\ col_count = 0
    /\ out = <<>>
    /\ enc_result = EXIT_SUCCESS
    /\ rd = 0
    /\ dout = <<>>
    /\ dec_result = EXIT_SUCCESS
    /\ stderr = <<>>
    /\ decode_mode \in BOOLEAN
    /\ verbose_mode \in BOOLEAN
    /\ clean = <<>>
    /\ A85Idle /\ AccIdle /\ Z85Idle /\ DnaIdle /\ MorseIdle /\ BrailleIdle /\ LeetIdle
    /\ BinIdle /\ DanceIdle

NextFactoradic == FactLine \/ FactEnd

SpecFactoradic == InitFactoradic /\ [][NextFactoradic]_vars

\* process_input on one line of up to MAX_DIGITS + 1 digits: a digit
\* followed by zeros, the largest digits a position can hold, and the
\* decimal numbers around each factorial and around ULLONG_MAX
FactZeros(n) == SubSeq([i \in 1..n |-> 48], 1, n)

FactTopDigits(n) == SubSeq([i \in 1..n |-> 48 + Min(9, n - i + 1)], 1, n)

FactLongDigits ==
    { <<48 + d>> \o FactZeros(n - 1) :
        d \in 1..9, n \in (MAX_DIGITS - 1)..(MAX_DIGITS + 1) }
    \cup { FactTopDigits(n) : n \in 1..MAX_DIGITS }

FactEdgeNumbers ==
    { BigDecimal(factorial(k)) : k \in 2..MAX_DIGITS }
    \cup { BigDecimal(BigSub(factorial(k), Big(1))) : k \in 2..MAX_DIGITS }
    \cup { BigDecimal(ULLONG_MAX), BigDecimal(BigSub(ULLONG_MAX, Big(1))),
           BigDecimal(TwoTo64) }

InitFactoradicWide ==
    /\ pc = "lines"
    /\ input \in { ln \o <<NL>> : ln \in FactLongDigits \cup FactEdgeNumbers }
    /\ in_pos = 0
    /\ wrap_cols = 0
    /\ col_count = 0
    /\ out = <<>>
    /\ enc_result = EXIT_SUCCESS
    /\ rd = 0
    /\ dout = <<>>
    /\ dec_result = EXIT_SUCCESS
    /\ stderr = <<>>
    /\ decode_mode \in BOOLEAN
    /\ verbose_mode \in BOOLEAN
    /\ clean = <<>>
    /\ A85Idle /\ AccIdle /\ Z85Idle /\ DnaIdle /\ MorseIdle /\ BrailleIdle /\ LeetIdle
    /\ BinIdle /\ DanceIdle

SpecFactoradicWide == InitFactoradicWide /\ [][NextFactoradic]_vars

(***************************************************************************)
(* morse.c                                                                 *)
(***************************************************************************)
MAX_MORSE_LENGTH == 10
EXIT_FILE_ERROR == 2

\* '.' is 46, '-' is 45, '/' is 47
morse_table == <<
    [character |-> 65, morse |-> <<46, 45>>],
    [character |-> 66, morse |-> <<45, 46, 46, 46>>],
    [character |-> 67, morse |-> <<45, 46, 45, 46>>],
    [character |-> 68, morse |-> <<45, 46, 46>>],
    [character |-> 69, morse |-> <<46>>],
    [character |-> 70, morse |-> <<46, 46, 45, 46>>],
    [character |-> 71, morse |-> <<45, 45, 46>>],
    [character |-> 72, morse |-> <<46, 46, 46, 46>>],
    [character |-> 73, morse |-> <<46, 46>>],
    [character |-> 74, morse |-> <<46, 45, 45, 45>>],
    [character |-> 75, morse |-> <<45, 46, 45>>],
    [character |-> 76, morse |-> <<46, 45, 46, 46>>],
    [character |-> 77, morse |-> <<45, 45>>],
    [character |-> 78, morse |-> <<45, 46>>],
    [character |-> 79, morse |-> <<45, 45, 45>>],
    [character |-> 80, morse |-> <<46, 45, 45, 46>>],
    [character |-> 81, morse |-> <<45, 45, 46, 45>>],
    [character |-> 82, morse |-> <<46, 45, 46>>],
    [character |-> 83, morse |-> <<46, 46, 46>>],
    [character |-> 84, morse |-> <<45>>],
    [character |-> 85, morse |-> <<46, 46, 45>>],
    [character |-> 86, morse |-> <<46, 46, 46, 45>>],
    [character |-> 87, morse |-> <<46, 45, 45>>],
    [character |-> 88, morse |-> <<45, 46, 46, 45>>],
    [character |-> 89, morse |-> <<45, 46, 45, 45>>],
    [character |-> 90, morse |-> <<45, 45, 46, 46>>],
    [character |-> 48, morse |-> <<45, 45, 45, 45, 45>>],
    [character |-> 49, morse |-> <<46, 45, 45, 45, 45>>],
    [character |-> 50, morse |-> <<46, 46, 45, 45, 45>>],
    [character |-> 51, morse |-> <<46, 46, 46, 45, 45>>],
    [character |-> 52, morse |-> <<46, 46, 46, 46, 45>>],
    [character |-> 53, morse |-> <<46, 46, 46, 46, 46>>],
    [character |-> 54, morse |-> <<45, 46, 46, 46, 46>>],
    [character |-> 55, morse |-> <<45, 45, 46, 46, 46>>],
    [character |-> 56, morse |-> <<45, 45, 45, 46, 46>>],
    [character |-> 57, morse |-> <<45, 45, 45, 45, 46>>],
    [character |-> 46, morse |-> <<46, 45, 46, 45, 46, 45>>],
    [character |-> 44, morse |-> <<45, 45, 46, 46, 45, 45>>],
    [character |-> 63, morse |-> <<46, 46, 45, 45, 46, 46>>],
    [character |-> 39, morse |-> <<46, 45, 45, 45, 45, 46>>],
    [character |-> 33, morse |-> <<45, 46, 45, 46, 45, 45>>],
    [character |-> 47, morse |-> <<45, 46, 46, 45, 46>>],
    [character |-> 40, morse |-> <<45, 46, 45, 45, 46>>],
    [character |-> 41, morse |-> <<45, 46, 45, 45, 46, 45>>],
    [character |-> 38, morse |-> <<46, 45, 46, 46, 46>>],
    [character |-> 58, morse |-> <<45, 45, 45, 46, 46, 46>>],
    [character |-> 59, morse |-> <<45, 46, 45, 46, 45, 46>>],
    [character |-> 61, morse |-> <<45, 46, 46, 46, 45>>],
    [character |-> 43, morse |-> <<46, 45, 46, 45, 46>>],
    [character |-> 45, morse |-> <<45, 46, 46, 46, 46, 45>>],
    [character |-> 95, morse |-> <<46, 46, 45, 45, 46, 45>>],
    [character |-> 34, morse |-> <<46, 45, 46, 46, 45, 46>>],
    [character |-> 36, morse |-> <<46, 46, 46, 45, 46, 46, 45>>],
    [character |-> 64, morse |-> <<46, 45, 45, 46, 45, 46>>],
    [character |-> 32, morse |-> <<47>>] >>

\* the return value NULL of char_to_morse
NoMorse == <<>>

RECURSIVE MorseFind(_, _)
MorseFind(c, i) ==
    IF i > Len(morse_table) THEN NoMorse
    ELSE IF morse_table[i].character = c THEN morse_table[i].morse
    ELSE MorseFind(c, i + 1)
char_to_morse(c) == MorseFind(ToUpper(c), 1)

RECURSIVE MorseFindChar(_, _)
MorseFindChar(m, i) ==
    IF i > Len(morse_table) THEN 63
    ELSE IF morse_table[i].morse = m THEN morse_table[i].character
    ELSE MorseFindChar(m, i + 1)
morse_to_char(m) == MorseFindChar(m, 1)

\* encode_morse(): one character of the input
MorseEncodeChar ==
    /\ pc = "encode"
    /\ in_pos < Len(input)
    /\ in_pos' = in_pos + 1
    /\ LET c == input[in_pos + 1]
           m == char_to_morse(c)
       IN  IF c = NL
           THEN /\ out' = Append(out, NL)
                /\ first_char' = TRUE
                /\ word_started' = FALSE
                /\ UNCHANGED <<unsupported_count, stderr>>
           ELSE IF m # NoMorse
           THEN IF c = 32
                THEN /\ out' = IF word_started THEN out \o word_sep ELSE out
                     /\ word_started' = FALSE
                     /\ first_char' = TRUE
                     /\ UNCHANGED <<unsupported_count, stderr>>
                ELSE /\ out' = out \o (IF first_char THEN <<>> ELSE char_sep) \o m
                     /\ first_char' = FALSE
                     /\ word_started' = TRUE
                     /\ UNCHANGED <<unsupported_count, stderr>>
           ELSE /\ unsupported_count' = unsupported_count + 1
                /\ stderr' = IF unsupported_count + 1 <= 10
                             THEN Append(stderr, "skipping unsupported character")
                             ELSE stderr
                /\ UNCHANGED <<out, first_char, word_started>>
    /\ UNCHANGED <<pc, input, wrap_cols, col_count, enc_result, rd, dout, dec_result,
                   char_sep, word_sep, morse_buffer, invalid_sequences,
                   notmorse>>

\* encode_morse(): the end of the input
MorseEncodeEnd ==
    /\ pc = "encode"
    /\ in_pos >= Len(input)
    /\ stderr' = IF unsupported_count > 10
                 THEN Append(stderr, "total unsupported characters skipped")
                 ELSE stderr
    /\ out' = Append(out, NL)
    /\ enc_result' = EXIT_SUCCESS
    /\ pc' = "decode"
    /\ UNCHANGED <<input, in_pos, wrap_cols, col_count, rd, dout, dec_result,
                   morsevars, notmorse>>

\* decode_morse(): morse_buffer resolved and written; r is [dout, stderr, invalid_sequences]
MorseFlush(r) ==
    IF Len(morse_buffer) > 0
    THEN LET dch == morse_to_char(morse_buffer)
             unknown == dch = 63 /\ morse_buffer # <<47>>
         IN  [dout |-> Append(r.dout, dch),
              invalid_sequences |-> IF unknown THEN r.invalid_sequences + 1
                                    ELSE r.invalid_sequences,
              stderr |-> IF unknown /\ r.invalid_sequences + 1 <= 10
                         THEN Append(r.stderr, "unknown morse sequence")
                         ELSE r.stderr]
    ELSE r

MorseDecState ==
    [dout |-> dout, stderr |-> stderr, invalid_sequences |-> invalid_sequences]

\* decode_morse(): one character of the input
MorseDecodeChar ==
    /\ pc = "decode"
    /\ rd < Len(out)
    /\ rd' = rd + 1
    /\ LET c == out[rd + 1]
           f == MorseFlush(MorseDecState)
       IN  IF c = 32 \/ c = 9
           THEN /\ dout' = f.dout
                /\ stderr' = f.stderr
                /\ invalid_sequences' = f.invalid_sequences
                /\ morse_buffer' = <<>>
           ELSE IF c = 47 \/ c = NL
           THEN /\ dout' = Append(f.dout, IF c = 47 THEN 32 ELSE NL)
                /\ stderr' = f.stderr
                /\ invalid_sequences' = f.invalid_sequences
                /\ morse_buffer' = <<>>
           ELSE IF c = 46 \/ c = 45
           THEN IF Len(morse_buffer) < MAX_MORSE_LENGTH
                THEN /\ morse_buffer' = Append(morse_buffer, c)
                     /\ UNCHANGED <<dout, stderr, invalid_sequences>>
                ELSE /\ stderr' = Append(stderr, "morse sequence too long, truncating")
                     /\ morse_buffer' = <<>>
                     /\ UNCHANGED <<dout, invalid_sequences>>
           ELSE UNCHANGED <<dout, stderr, invalid_sequences, morse_buffer>>
    /\ UNCHANGED <<pc, input, in_pos, wrap_cols, col_count, out, enc_result, dec_result,
                   char_sep, word_sep, first_char, word_started, unsupported_count,
                   notmorse>>

\* decode_morse(): the end of the input
MorseDecodeEnd ==
    /\ pc = "decode"
    /\ rd >= Len(out)
    /\ LET f == MorseFlush(MorseDecState)
       IN  /\ dout' = Append(f.dout, NL)
           /\ invalid_sequences' = f.invalid_sequences
           /\ stderr' = IF f.invalid_sequences > 10
                        THEN Append(f.stderr, "total invalid morse sequences found")
                        ELSE f.stderr
    /\ dec_result' = EXIT_SUCCESS
    /\ pc' = "done"
    /\ UNCHANGED <<input, in_pos, wrap_cols, col_count, out, enc_result, rd,
                   char_sep, word_sep, first_char, word_started, unsupported_count,
                   morse_buffer, notmorse>>

(***************************************************************************)
(* braille.c, run in a UTF-8 locale.                                       *)
(***************************************************************************)
BRAILLE_BASE == 10240
BRAILLE_CAPITAL == 32
BRAILLE_NUMBER == 60
BRAILLE_MAX_LINE_LENGTH == 8192
PATTERN_LENGTH == 6
NoPattern == 255

braille_table == <<
    [character |-> 65, pattern |-> 1], [character |-> 66, pattern |-> 3],
    [character |-> 67, pattern |-> 9], [character |-> 68, pattern |-> 25],
    [character |-> 69, pattern |-> 17], [character |-> 70, pattern |-> 11],
    [character |-> 71, pattern |-> 27], [character |-> 72, pattern |-> 19],
    [character |-> 73, pattern |-> 10], [character |-> 74, pattern |-> 26],
    [character |-> 75, pattern |-> 5], [character |-> 76, pattern |-> 7],
    [character |-> 77, pattern |-> 13], [character |-> 78, pattern |-> 29],
    [character |-> 79, pattern |-> 21], [character |-> 80, pattern |-> 15],
    [character |-> 81, pattern |-> 31], [character |-> 82, pattern |-> 23],
    [character |-> 83, pattern |-> 14], [character |-> 84, pattern |-> 30],
    [character |-> 85, pattern |-> 37], [character |-> 86, pattern |-> 39],
    [character |-> 87, pattern |-> 58], [character |-> 88, pattern |-> 45],
    [character |-> 89, pattern |-> 61], [character |-> 90, pattern |-> 53],
    [character |-> 49, pattern |-> 1], [character |-> 50, pattern |-> 3],
    [character |-> 51, pattern |-> 9], [character |-> 52, pattern |-> 25],
    [character |-> 53, pattern |-> 17], [character |-> 54, pattern |-> 11],
    [character |-> 55, pattern |-> 27], [character |-> 56, pattern |-> 19],
    [character |-> 57, pattern |-> 10], [character |-> 48, pattern |-> 26],
    [character |-> 46, pattern |-> 44], [character |-> 44, pattern |-> 2],
    [character |-> 63, pattern |-> 38], [character |-> 33, pattern |-> 22],
    [character |-> 59, pattern |-> 6], [character |-> 58, pattern |-> 18],
    [character |-> 45, pattern |-> 36], [character |-> 39, pattern |-> 4],
    [character |-> 34, pattern |-> 16], [character |-> 40, pattern |-> 46],
    [character |-> 41, pattern |-> 46], [character |-> 47, pattern |-> 12],
    [character |-> 32, pattern |-> 0] >>

IsUpper(c) == c >= 65 /\ c <= 90
IsAlpha(c) == IsUpper(c) \/ (c >= 97 /\ c <= 122)
IsPrint(c) == c >= 32 /\ c <= 126
ToLower(c) == IF IsUpper(c) THEN c + 32 ELSE c

RECURSIVE BrailleFind(_, _)
BrailleFind(c, i) ==
    IF i > Len(braille_table) THEN NoPattern
    ELSE IF braille_table[i].character = c THEN braille_table[i].pattern
    ELSE BrailleFind(c, i + 1)
char_to_braille(c) == BrailleFind(ToUpper(c), 1)

RECURSIVE BrailleFindChar(_, _, _, _)
BrailleFindChar(pattern, is_number, is_capital, i) ==
    IF i > Len(braille_table) THEN 63
    ELSE IF braille_table[i].pattern = pattern
    THEN LET c == braille_table[i].character
         IN  IF is_number /\ c >= 65 /\ c <= 74
             THEN (IF c = 74 THEN 48 ELSE 49 + (c - 65))
             ELSE IF is_capital THEN c ELSE ToLower(c)
    ELSE BrailleFindChar(pattern, is_number, is_capital, i + 1)
braille_to_char(pattern, is_number, is_capital) ==
    BrailleFindChar(pattern, is_number, is_capital, 1)

\* bit b (a power of two) of pattern
HasBit(pattern, b) == (pattern \div b) % 2 = 1
Dot(pattern, b) == IF HasBit(pattern, b) THEN 111 ELSE 46

pattern_to_text(pattern) ==
    <<Dot(pattern, 1), Dot(pattern, 8), Dot(pattern, 2),
      Dot(pattern, 16), Dot(pattern, 4), Dot(pattern, 32)>>

text_to_pattern(text) ==
    IF Len(text) < PATTERN_LENGTH THEN 0
    ELSE (IF text[1] = 111 THEN 1 ELSE 0) + (IF text[2] = 111 THEN 8 ELSE 0)
         + (IF text[3] = 111 THEN 2 ELSE 0) + (IF text[4] = 111 THEN 16 ELSE 0)
         + (IF text[5] = 111 THEN 4 ELSE 0) + (IF text[6] = 111 THEN 32 ELSE 0)

\* fputwc(): the UTF-8 bytes of a character of U+0800..U+FFFF
Utf8(wc) == <<224 + (wc \div 4096), 128 + ((wc \div 64) % 64), 128 + (wc % 64)>>

\* what write_pattern writes
PatternBytes(pattern) ==
    IF text_mode THEN pattern_to_text(pattern) ELSE Utf8(BRAILLE_BASE + pattern)

\* A stream gets its orientation from the first operation on it; a byte
\* operation on a wide-oriented stream and a wide operation on a
\* byte-oriented stream are undefined: the data may be written, be lost
\* silently, or the call may fail.
\* the writes of one turn of encode_braille's loop, in order: each is
\* <<kind, bytes>>; r is [out, orientation, failed]
RECURSIVE BrailleWrites(_, _)
BrailleWrites(r, ws) ==
    IF ws = <<>> \/ r.failed THEN { r }
    ELSE LET w == Head(ws)
             kinds == IF r.orientation = "none" \/ r.orientation = w[1]
                      THEN { "written" }
                      ELSE { "written", "lost", "failed" }
             o == IF r.orientation = "none" THEN w[1] ELSE r.orientation
         IN  UNION { BrailleWrites(
                         [out |-> IF k = "written" THEN r.out \o w[2] ELSE r.out,
                          orientation |-> o,
                          failed |-> k = "failed"],
                         Tail(ws)) : k \in kinds }

PatternKind == IF text_mode THEN "byte" ELSE "wide"

\* encode_braille(): one character of the input
BrailleEncodeChar ==
    /\ pc = "encode"
    /\ in_pos < Len(input)
    /\ in_pos' = in_pos + 1
    /\ LET c == input[in_pos + 1]
           pattern == char_to_braille(c)
           number == IsDigit(c) /\ ~number_mode
           capital == IsUpper(c) /\ IsAlpha(c)
           ws == (IF number THEN << <<PatternKind, PatternBytes(BRAILLE_NUMBER)>> >>
                  ELSE <<>>)
                 \o (IF capital THEN << <<PatternKind, PatternBytes(BRAILLE_CAPITAL)>> >>
                     ELSE <<>>)
                 \o << <<PatternKind, PatternBytes(pattern)>> >>
           now == [out |-> out, orientation |-> orientation, failed |-> FALSE]
       IN  IF c = NL
           THEN \E r \in BrailleWrites(now, << <<"byte", <<NL>> >> >>) :
                   /\ out' = r.out
                   /\ orientation' = r.orientation
                   /\ line_length' = 0
                   /\ IF r.failed
                      THEN /\ enc_result' = RESULT_ERROR_IO
                           /\ pc' = "decode"
                           /\ UNCHANGED number_mode
                      ELSE /\ number_mode' = FALSE
                           /\ UNCHANGED <<enc_result, pc>>
                   /\ UNCHANGED stderr
           ELSE IF line_length > BRAILLE_MAX_LINE_LENGTH
           THEN /\ stderr' = Append(stderr, "line too long, truncating")
                /\ UNCHANGED <<out, orientation, enc_result, pc, number_mode, line_length>>
           ELSE IF pattern = NoPattern
           THEN /\ stderr' = Append(stderr, "skipping unsupported character")
                /\ UNCHANGED <<out, orientation, enc_result, pc, number_mode, line_length>>
           ELSE \E r \in BrailleWrites(now, ws) :
                   /\ out' = r.out
                   /\ orientation' = r.orientation
                   /\ IF r.failed
                      THEN /\ enc_result' = RESULT_ERROR_IO
                           /\ pc' = "decode"
                           /\ line_length' = 0
                           /\ UNCHANGED number_mode
                      ELSE /\ number_mode' = IF number THEN TRUE
                                             ELSE IF ~IsDigit(c) /\ c # 32 THEN FALSE
                                             ELSE number_mode
                           /\ line_length' = line_length + Len(ws)
                           /\ UNCHANGED <<enc_result, pc>>
                   /\ UNCHANGED stderr
    /\ UNCHANGED <<input, wrap_cols, col_count, rd, dout, dec_result,
                   text_mode, dec_number_mode, capital_next, buffer, notbraille>>

\* encode_braille(): the end of the input; the decoder's line_length starts at 0
BrailleEncodeEnd ==
    /\ pc = "encode"
    /\ in_pos >= Len(input)
    /\ \E r \in BrailleWrites([out |-> out, orientation |-> orientation,
                              failed |-> FALSE], << <<"byte", <<NL>> >> >>) :
          /\ out' = r.out
          /\ orientation' = r.orientation
          /\ enc_result' = IF r.failed THEN RESULT_ERROR_IO ELSE RESULT_SUCCESS
    /\ pc' = "decode"
    /\ line_length' = 0
    /\ UNCHANGED <<input, in_pos, wrap_cols, col_count, rd, dout, dec_result, stderr,
                   text_mode, number_mode, dec_number_mode, capital_next, buffer,
                   notbraille>>

\* fgetwc() in a UTF-8 locale: the character at pos and the bytes it takes;
\* len 0 is WEOF (an invalid or incomplete sequence)
Utf8Len(b) ==
    IF b < 128 THEN 1
    ELSE IF b >= 194 /\ b <= 223 THEN 2
    ELSE IF b >= 224 /\ b <= 239 THEN 3
    ELSE IF b >= 240 /\ b <= 244 THEN 4
    ELSE 0
IsCont(b) == b >= 128 /\ b <= 191
fgetwc(stream, pos) ==
    LET b == stream[pos + 1]
        n == Utf8Len(b)
        t(k) == stream[pos + k] - 128
    IN  IF pos >= Len(stream) THEN [len |-> 0, wc |-> -1]
        ELSE IF
           \/ n = 0
           \/ pos + n > Len(stream)
           \/ \E k \in 2..n : ~IsCont(stream[pos + k])
           \/ (b = 224 /\ stream[pos + 2] < 160)
           \/ (b = 237 /\ stream[pos + 2] > 159)
           \/ (b = 240 /\ stream[pos + 2] < 144)
           \/ (b = 244 /\ stream[pos + 2] > 143)
        THEN [len |-> 0, wc |-> -1]
        ELSE [len |-> n,
              wc |-> IF n = 1 THEN b
                     ELSE IF n = 2 THEN (b - 192) * 64 + t(2)
                     ELSE IF n = 3 THEN (b - 224) * 4096 + t(2) * 64 + t(3)
                     ELSE (b - 240) * 262144 + t(2) * 4096 + t(3) * 64 + t(4)]

\* decode_braille(): a complete pattern
BraillePattern(pattern) ==
    IF pattern = BRAILLE_NUMBER
    THEN /\ dec_number_mode' = TRUE
         /\ UNCHANGED <<capital_next, dout>>
    ELSE IF pattern = BRAILLE_CAPITAL
    THEN /\ capital_next' = TRUE
         /\ UNCHANGED <<dec_number_mode, dout>>
    ELSE LET dch == braille_to_char(pattern, dec_number_mode, capital_next)
         IN  /\ dout' = Append(dout, dch)
             /\ dec_number_mode' = IF ~IsDigit(dch) /\ dch # 32 THEN FALSE
                                   ELSE dec_number_mode
             /\ capital_next' = FALSE

\* decode_braille(): a newline
BrailleNewline(flushed) ==
    /\ dout' = dout \o flushed \o <<NL>>
    /\ buffer' = <<>>
    /\ dec_number_mode' = FALSE
    /\ capital_next' = FALSE
    /\ line_length' = 0
    /\ UNCHANGED stderr

\* decode_braille(): one character (fgetc with -t, fgetwc without)
BrailleDecodeChar ==
    /\ pc = "decode"
    /\ rd < Len(out)
    /\ IF text_mode
       THEN LET c == out[rd + 1] IN
            /\ rd' = rd + 1
            /\ IF c = NL
               THEN BrailleNewline(
                        IF Len(buffer) = PATTERN_LENGTH
                        THEN <<braille_to_char(text_to_pattern(buffer),
                                               dec_number_mode, capital_next)>>
                        ELSE <<>>)
               ELSE IF line_length > BRAILLE_MAX_LINE_LENGTH
               THEN /\ stderr' = Append(stderr, "line too long, truncating")
                    /\ UNCHANGED <<dout, buffer, dec_number_mode, capital_next,
                                   line_length>>
               ELSE IF c = 111 \/ c = 46
               THEN /\ line_length' = line_length + 1
                    /\ UNCHANGED stderr
                    /\ IF Len(buffer) + 1 = PATTERN_LENGTH
                       THEN /\ BraillePattern(text_to_pattern(Append(buffer, c)))
                            /\ buffer' = <<>>
                       ELSE /\ buffer' = Append(buffer, c)
                            /\ UNCHANGED <<dout, dec_number_mode, capital_next>>
               ELSE UNCHANGED <<dout, buffer, dec_number_mode, capital_next,
                                line_length, stderr>>
       ELSE LET w == fgetwc(out, rd) IN
            /\ w.len > 0
            /\ rd' = rd + w.len
            /\ IF w.wc = NL
               THEN BrailleNewline(<<>>)
               ELSE IF line_length > BRAILLE_MAX_LINE_LENGTH
               THEN /\ stderr' = Append(stderr, "line too long, truncating")
                    /\ UNCHANGED <<dout, buffer, dec_number_mode, capital_next,
                                   line_length>>
               ELSE IF w.wc >= BRAILLE_BASE /\ w.wc <= BRAILLE_BASE + 63
               THEN /\ BraillePattern(w.wc - BRAILLE_BASE)
                    /\ line_length' = line_length + 1
                    /\ UNCHANGED <<buffer, stderr>>
               ELSE UNCHANGED <<dout, buffer, dec_number_mode, capital_next,
                                line_length, stderr>>
    /\ UNCHANGED <<pc, input, in_pos, wrap_cols, col_count, out, enc_result, dec_result,
                   text_mode, number_mode, orientation, notbraille>>

\* decode_braille(): EOF or WEOF, the final newline and the return
BrailleDecodeEnd ==
    /\ pc = "decode"
    /\ rd >= Len(out) \/ (~text_mode /\ fgetwc(out, rd).len = 0)
    /\ dout' = Append(dout, NL)
    /\ dec_result' = RESULT_SUCCESS
    /\ pc' = "done"
    /\ UNCHANGED <<input, in_pos, wrap_cols, col_count, out, enc_result, rd, stderr,
                   braillevars, buffer, line_length, notbraille>>

MaxPlain == 3

\* 'A', 'Z', '7', ' ', newline, '#' (no table entry), 'e'
MorseCharSample == { 65, 90, 55, 32, 10, 35, 101 }

\* the streams before a run of a text tool
TextStreams ==
    /\ pc = "encode"
    /\ in_pos = 0
    /\ wrap_cols = 0
    /\ col_count = 0
    /\ out = <<>>
    /\ enc_result = 0
    /\ rd = 0
    /\ dout = <<>>
    /\ dec_result = 0
    /\ stderr = <<>>

InitMorse ==
    /\ TextStreams
    /\ input \in TextsOver(MorseCharSample, MaxPlain)
    /\ MorseIdle
    /\ A85Idle /\ AccIdle /\ Z85Idle /\ DnaIdle /\ FactIdle /\ BrailleIdle /\ LeetIdle
    /\ BinIdle /\ DanceIdle

NextMorse == MorseEncodeChar \/ MorseEncodeEnd \/ MorseDecodeChar \/ MorseDecodeEnd

SpecMorse == InitMorse /\ [][NextMorse]_vars

\* decode_morse alone on texts of '.', '-', ' ', '/', newline and 'x'
MaxMorseDec == 4
MorseDecSample == { 46, 45, 32, 47, 10, 120 }

InitMorseDec ==
    /\ pc = "decode"
    /\ input = <<>>
    /\ in_pos = 0
    /\ wrap_cols = 0
    /\ col_count = 0
    /\ out \in TextsOver(MorseDecSample, MaxMorseDec)
    /\ enc_result = 0
    /\ rd = 0
    /\ dout = <<>>
    /\ dec_result = 0
    /\ stderr = <<>>
    /\ MorseIdle
    /\ A85Idle /\ AccIdle /\ Z85Idle /\ DnaIdle /\ FactIdle /\ BrailleIdle /\ LeetIdle
    /\ BinIdle /\ DanceIdle

NextMorseDec == MorseDecodeChar \/ MorseDecodeEnd

SpecMorseDec == InitMorseDec /\ [][NextMorseDec]_vars

\* 'A', 'K', '1', ' ', newline, '#' (no table entry), 'a'
BrailleCharSample == { 65, 75, 49, 32, 10, 35, 97 }

InitBraille ==
    /\ TextStreams
    /\ input \in TextsOver(BrailleCharSample, MaxPlain)
    /\ text_mode \in BOOLEAN
    /\ number_mode = FALSE
    /\ dec_number_mode = FALSE
    /\ capital_next = FALSE
    /\ orientation = "none"
    /\ A85Idle /\ AccIdle /\ Z85Idle /\ DnaIdle /\ FactIdle /\ MorseIdle /\ LeetIdle
    /\ BinIdle /\ DanceIdle

NextBraille ==
    BrailleEncodeChar \/ BrailleEncodeEnd \/ BrailleDecodeChar \/ BrailleDecodeEnd

SpecBraille == InitBraille /\ [][NextBraille]_vars

(***************************************************************************)
(* leet.c.  A table row is <<plain character, encoded symbol>>.            *)
(***************************************************************************)
LEET_BUFFER_SIZE == 1024
MAX_SYMBOL_LENGTH == 4

basic_leet == <<
    <<97, <<52>>>>, <<65, <<52>>>>, <<101, <<51>>>>,
    <<69, <<51>>>>, <<105, <<49>>>>, <<73, <<49>>>>,
    <<108, <<49>>>>, <<76, <<49>>>>, <<111, <<48>>>>,
    <<79, <<48>>>>, <<115, <<53>>>>, <<83, <<53>>>>,
    <<116, <<55>>>>, <<84, <<55>>>> >>

advanced_leet == <<
    <<97, <<52>>>>, <<65, <<52>>>>, <<98, <<54>>>>,
    <<66, <<54>>>>, <<101, <<51>>>>, <<69, <<51>>>>,
    <<103, <<57>>>>, <<71, <<57>>>>, <<105, <<49>>>>,
    <<73, <<49>>>>, <<108, <<49>>>>, <<76, <<49>>>>,
    <<111, <<48>>>>, <<79, <<48>>>>, <<115, <<53>>>>,
    <<83, <<53>>>>, <<116, <<55>>>>, <<84, <<55>>>>,
    <<122, <<50>>>>, <<90, <<50>>>> >>

extreme_leet == <<
    <<97, <<52>>>>, <<65, <<64>>>>, <<98, <<54>>>>,
    <<66, <<124, 51>>>>, <<99, <<60>>>>, <<67, <<40>>>>,
    <<100, <<124, 41>>>>, <<68, <<124, 41>>>>, <<101, <<51>>>>,
    <<69, <<51>>>>, <<102, <<124, 61>>>>, <<70, <<124, 61>>>>,
    <<103, <<57>>>>, <<71, <<54>>>>, <<104, <<35>>>>,
    <<72, <<124, 45, 124>>>>, <<105, <<49>>>>, <<73, <<33>>>>,
    <<106, <<95, 124>>>>, <<74, <<95, 124>>>>, <<107, <<124, 60>>>>,
    <<75, <<124, 60>>>>, <<108, <<49>>>>, <<76, <<124, 95>>>>,
    <<109, <<124, 92, 47, 124>>>>, <<77, <<124, 92, 47, 124>>>>, <<110, <<124, 92, 124>>>>,
    <<78, <<124, 92, 124>>>>, <<111, <<48>>>>, <<79, <<48>>>>,
    <<112, <<124, 62>>>>, <<80, <<124, 62>>>>, <<113, <<57>>>>,
    <<81, <<48, 95>>>>, <<114, <<124, 50>>>>, <<82, <<124, 50>>>>,
    <<115, <<53>>>>, <<83, <<36>>>>, <<116, <<55>>>>,
    <<84, <<55>>>>, <<117, <<124, 95, 124>>>>, <<85, <<124, 95, 124>>>>,
    <<118, <<92, 47>>>>, <<86, <<92, 47>>>>, <<119, <<86, 86>>>>,
    <<87, <<86, 86>>>>, <<120, <<62, 60>>>>, <<88, <<62, 60>>>>,
    <<121, <<96, 47>>>>, <<89, <<96, 47>>>>, <<122, <<50>>>>,
    <<90, <<50>>>> >>

\* the switch on level
LeetTable ==
    IF level = 2 THEN advanced_leet
    ELSE IF level = 3 THEN extreme_leet
    ELSE basic_leet

\* the return value NULL of find_leet_char
NoLeet == <<>>

RECURSIVE LeetFind(_, _, _)
LeetFind(c, table, k) ==
    IF k > Len(table) THEN NoLeet
    ELSE IF table[k][1] = c THEN table[k][2]
    ELSE LeetFind(c, table, k + 1)
find_leet_char(c, table) == LeetFind(c, table, 1)

\* find_normal_char(): 0 when no row has the symbol
RECURSIVE LeetFindNormal(_, _, _)
LeetFindNormal(leet_str, table, k) ==
    IF k > Len(table) THEN 0
    ELSE IF table[k][2] = leet_str THEN table[k][1]
    ELSE LeetFindNormal(leet_str, table, k + 1)
find_normal_char(leet_str, table) == LeetFindNormal(leet_str, table, 1)

\* encode_leetspeak(): one character of the input
LeetEncodeChar ==
    /\ pc = "encode"
    /\ in_pos < Len(input)
    /\ in_pos' = in_pos + 1
    /\ LET c == input[in_pos + 1]
           leet == find_leet_char(c, LeetTable)
       IN  out' = IF leet # NoLeet THEN out \o leet ELSE Append(out, c)
    /\ UNCHANGED <<pc, input, wrap_cols, col_count, enc_result, rd, dout, dec_result,
                   stderr, leetvars, buffer, notleet>>

\* encode_leetspeak(): EOF; main() returns
LeetEncodeEnd ==
    /\ pc = "encode"
    /\ in_pos >= Len(input)
    /\ enc_result' = EXIT_SUCCESS
    /\ pc' = "decode"
    /\ UNCHANGED <<input, in_pos, wrap_cols, col_count, out, rd, dout, dec_result,
                   stderr, leetvars, buffer, notleet>>

\* decode_leetspeak(): the loop that reads the input into buffer; fgetc is
\* called before the room in buffer is tested
LeetRead(stream) ==
    [buffer |-> SubSeq(stream, 1, Min(Len(stream), LEET_BUFFER_SIZE - 1)),
     rd |-> Min(Len(stream), LEET_BUFFER_SIZE)]

\* a decoder that tries the length 1 only
LeetMatchOneChar(buf, i, len, table) ==
    LET normal == IF i + 1 <= Len(buf)
                  THEN find_normal_char(SubSeq(buf, i + 1, i + 1), table)
                  ELSE 0
    IN  [normal |-> normal, len |-> IF normal # 0 THEN 1 ELSE 0]

\* decode_leetspeak(): the lengths 4 down to len tried at buffer + i;
\* [normal, len], normal 0 when none matches
RECURSIVE LeetMatch(_, _, _, _)
LeetMatch(buf, i, len, table) ==
    IF len < 1 THEN [normal |-> 0, len |-> 0]
    ELSE LET normal == IF i + len <= Len(buf)
                       THEN find_normal_char(SubSeq(buf, i + 1, i + len), table)
                       ELSE 0
         IN  IF normal # 0 THEN [normal |-> normal, len |-> len]
             ELSE LeetMatch(buf, i, len - 1, table)

\* decode_leetspeak(): one turn of the loop over buffer; r is [i, dout]
LeetMatchIter(buf, table, r) ==
    IF r.i >= Len(buf) THEN r
    ELSE LET m == LeetMatch(buf, r.i, MAX_SYMBOL_LENGTH, table)
         IN  IF m.normal # 0
             THEN [i |-> r.i + m.len, dout |-> Append(r.dout, m.normal)]
             ELSE [i |-> r.i + 1, dout |-> Append(r.dout, buf[r.i + 1])]

\* n turns of the loop
RECURSIVE LeetMatchIters(_, _, _, _)
LeetMatchIters(buf, table, r, n) ==
    IF n = 0 THEN r
    ELSE IF n = 1 THEN LeetMatchIter(buf, table, r)
    ELSE Only({ LeetMatchIters(buf, table, t, n - (n \div 2)) :
                t \in { LeetMatchIters(buf, table, r, n \div 2) } })

\* decode_leetspeak(): the input read into buffer
LeetDecodeRead ==
    /\ pc = "decode"
    /\ \E r \in { LeetRead(out) } :
          /\ buffer' = r.buffer
          /\ rd' = r.rd
    /\ scan' = 0
    /\ pc' = "match"
    /\ UNCHANGED <<input, in_pos, wrap_cols, col_count, out, enc_result, dout,
                   dec_result, stderr, level, ignore_case, notleet>>

\* decode_leetspeak(): one turn of the loop over buffer
LeetDecodeMatch ==
    /\ pc = "match"
    /\ scan < Len(buffer)
    /\ \E r \in { LeetMatchIter(buffer, LeetTable, [i |-> scan, dout |-> dout]) } :
          /\ scan' = r.i
          /\ dout' = r.dout
    /\ UNCHANGED <<pc, input, in_pos, wrap_cols, col_count, out, enc_result, rd,
                   dec_result, stderr, level, ignore_case, buffer, notleet>>

\* decode_leetspeak(): the end of buffer; main() returns
LeetDecodeEnd ==
    /\ pc = "match"
    /\ scan >= Len(buffer)
    /\ dec_result' = EXIT_SUCCESS
    /\ pc' = "done"
    /\ UNCHANGED <<input, in_pos, wrap_cols, col_count, out, enc_result, rd, dout,
                   stderr, leetvars, buffer, notleet>>

\* decode_leetspeak(), the whole call
LeetDecode ==
    /\ pc = "decode"
    /\ \E b \in { LeetRead(out) } :
       \E r \in { LeetMatchIters(b.buffer, LeetTable, [i |-> 0, dout |-> dout],
                                 Len(b.buffer)) } :
          /\ buffer' = b.buffer
          /\ rd' = b.rd
          /\ scan' = r.i
          /\ dout' = r.dout
    /\ dec_result' = EXIT_SUCCESS
    /\ pc' = "done"
    /\ UNCHANGED <<input, in_pos, wrap_cols, col_count, out, enc_result,
                   stderr, level, ignore_case, notleet>>

TxtHello == <<104, 101, 108, 108, 111>>

\* 'h', 'e', 'l', 'M', '1', '|'
LeetCharSample == { 104, 101, 108, 77, 49, 124 }

\* main(): the options and the input before encode_leetspeak runs
InitLeet ==
    /\ TextStreams
    /\ input \in TextsOver(LeetCharSample, MaxPlain) \cup { TxtHello }
    /\ level \in 1..3
    /\ ignore_case \in BOOLEAN
    /\ scan = 0
    /\ A85Idle /\ AccIdle /\ Z85Idle /\ DnaIdle /\ FactIdle /\ MorseIdle /\ BrailleIdle
    /\ BinIdle /\ DanceIdle

NextLeet ==
    LeetEncodeChar \/ LeetEncodeEnd \/ LeetDecodeRead \/ LeetDecodeMatch \/ LeetDecodeEnd

SpecLeet == InitLeet /\ [][NextLeet]_vars

\* decode_leetspeak alone, the whole call in one step, on short texts and
\* on texts as long as buffer and longer
LongLeet == 1025
LongLeetTexts ==
    { SubSeq([k \in 1..n |-> 104], 1, n) \o <<51, 49>> : n \in (LongLeet - 5)..LongLeet }

InitLeetLong ==
    /\ pc = "decode"
    /\ input = <<>>
    /\ in_pos = 0
    /\ wrap_cols = 0
    /\ col_count = 0
    /\ enc_result = 0
    /\ rd = 0
    /\ dout = <<>>
    /\ dec_result = 0
    /\ stderr = <<>>
    /\ out \in TextsOver(LeetCharSample, MaxPlain) \cup LongLeetTexts
    /\ level \in 1..3
    /\ ignore_case = FALSE
    /\ scan = 0
    /\ A85Idle /\ AccIdle /\ Z85Idle /\ DnaIdle /\ FactIdle /\ MorseIdle /\ BrailleIdle
    /\ BinIdle /\ DanceIdle

NextLeetLong == LeetDecode

SpecLeetLong == InitLeetLong /\ [][NextLeetLong]_vars

(***************************************************************************)
(* Claims about factoradic.c                                               *)
(***************************************************************************)
\* a run without -v on the one line ln, finished
FactRan(ln, dec) ==
    /\ pc = "done"
    /\ ~verbose_mode
    /\ decode_mode = dec
    /\ input = ln \o <<NL>>

Txt0 == <<48>>
Txt463 == <<52, 54, 51>>
Txt469 == <<52, 54, 57>>
Txt34201 == <<51, 52, 50, 48, 49>>
Txt34101 == <<51, 52, 49, 48, 49>>

HasDigitOverPosition(s) ==
    \E i \in 1..Len(s) : s[i] - 48 > Len(s) - i + 1

\* t occurs in s
Contains(s, t) ==
    \E k \in 0..(Len(s) - Len(t)) : SubSeq(s, k + 1, k + Len(t)) = t

\* what the step has appended to out
Written == SubSeq(out', Len(out) + 1, Len(out'))

\* C12: when factoradic_to_decimal is given a digit string in which some
\* digit is greater than its position, an error is written to stderr and no
\* result line is written to the output; the one-digit strings "0" and "1"
\* are accepted and their values printed.
C12_DigitOverPositionRejected ==
    [][(decode_mode /\ in_pos' > in_pos /\ clean' # <<>>) =>
          /\ HasDigitOverPosition(clean') =>
                /\ Len(stderr') > Len(stderr)
                /\ stderr'[Len(stderr) + 1] = "digit exceeds maximum allowed"
                /\ ~verbose_mode => out' = out
                /\ ~Contains(Written, TxtResult)
                /\ ~Contains(Written, TxtDecimal)
          /\ (clean' \in { <<48>>, <<49>> } /\ ~verbose_mode) =>
                /\ out' = out \o clean' \o <<NL>>
                /\ stderr' = stderr]_vars

\* "131" decoded: 3 at position 2 is rejected, nothing is printed
C12_Witness ==
    /\ pc = "done"
    /\ decode_mode
    /\ input = <<49, 51, 49, NL>>
    /\ clean = <<49, 51, 49>>
    /\ stderr = <<"digit exceeds maximum allowed">>
    /\ out = <<>>

(***************************************************************************)
(* Claims about morse.c and braille.c                                      *)
(***************************************************************************)
\* uppercase letters, digits and spaces only
IsPlainUpper(s) ==
    \A i \in 1..Len(s) : IsUpper(s[i]) \/ IsDigit(s[i]) \/ s[i] = 32

\* C13 (braille): for every text of uppercase letters, digits and spaces,
\* encode_braille followed by decode_braille succeeds and writes the text
\* back (followed by line ends only).
C13_BrailleRoundTrip ==
    (pc = "done" /\ IsPlainUpper(input)) =>
        /\ dec_result = RESULT_SUCCESS
        /\ StripNL(dout) = input

\* C13 (morse): for every text of uppercase letters, digits and spaces,
\* encode_morse followed by decode_morse succeeds and writes the text back
\* (followed by line ends only).
C13_MorseRoundTrip ==
    (pc = "done" /\ IsPlainUpper(input)) =>
        /\ enc_result = EXIT_SUCCESS
        /\ dec_result = EXIT_SUCCESS
        /\ StripNL(dout) = input

(***************************************************************************)
(* Claims about leet.c                                                     *)
(***************************************************************************)
\* C14: "hello" encoded at level 1 and decoded at level 1 is "hello" again.
C14_HelloRoundTrip ==
    (pc = "done" /\ level = 1 /\ input = TxtHello) => dout = TxtHello

\* C15: when decode_leetspeak returns, every character of its input has
\* been read and every character read has been processed.
C15_InputConsumed ==
    pc = "done" => rd = Len(out) /\ scan = Len(out)

(***************************************************************************)
(* Claims about the diagnostics                                            *)
(***************************************************************************)
\* the characters decode_morse gives a meaning to
MorseMeaningful == { 46, 45, 32, 9, 47, 10 }

\* C16: when decode_morse has skipped a character of its input, at least
\* one diagnostic has been written to stderr by the end of the run.
C16_SkippedIsDiagnosed ==
    (pc = "done" /\ \E i \in 1..Len(out) : out[i] \notin MorseMeaningful) =>
        stderr # <<>>

(***************************************************************************)
(* Claims about the base-85 tables and decoders                            *)
(***************************************************************************)
\* the bytes of a table of symbols
Symbols(table) == { table[k] : k \in 1..Len(table) }

\* C17: for every digit d in 0..84 the decoder lookup of each tool maps the
\* encoder's symbol for d back to d, and every byte that is not an encoder
\* symbol is looked up as -1; stated for the byte decode_z85 has just read.
C17_TablesConsistent ==
    (pc # "decode" \/ rd = 1) =>
        LET b == out[1] IN
        /\ \A d \in 0..84 :
              /\ z85_alphabet[d + 1] = b => z85_decoder[b + 1] = d
              /\ ascii85_chars[d + 1] = b => ascii85_decode_char(b) = d
        /\ b \notin Symbols(z85_alphabet) => z85_decoder[b + 1] = -1
        /\ b \notin Symbols(ascii85_chars) => ascii85_decode_char(b) = -1

\* the characters of a text that decode_ascii85 does not skip as whitespace
A85Significant(text) == SelectSeq(text, LAMBDA c : ~IsA85Space(c))

\* C18 for decode_ascii85: on texts without markers, k = 2..4 characters
\* left at the end of the input give k - 1 bytes after those of the whole
\* groups, one character left is a decode error and gives none, and none
\* left is a success.
C18_A85EndOfStream ==
    LET sig == A85Significant(out)
        k == Len(sig) % ASCII85_ENCODED_SIZE
        whole == ASCII85_GROUP_SIZE * (Len(sig) \div ASCII85_ENCODED_SIZE) IN
    (pc = "done" /\ rd = Len(out) /\ buffer_pos = k
       /\ \A i \in 1..Len(sig) : sig[i] \notin {CharZ, CharY}) =>
        /\ (k >= 2 /\ dec_result = RESULT_SUCCESS) => Len(dout) = whole + k - 1
        /\ k = 1 => dec_result = RESULT_ERROR_DECODE /\ Len(dout) = whole
        /\ k = 0 => dec_result = RESULT_SUCCESS /\ Len(dout) = whole

\* C18 for decode_z85: on texts of symbols and whitespace, k = 2..4
\* characters left at the end of the input give k - 1 bytes after those of
\* the whole groups, one character left is an error and gives no byte, and
\* none left is a success.
C18_Z85EndOfStream ==
    LET sig == Z85Significant(out)
        k == Len(sig) % DECODE_CHUNK
        whole == ENCODE_CHUNK * (Len(sig) \div DECODE_CHUNK) IN
    (pc = "done" /\ rd = Len(out)) =>
        /\ (k >= 2 /\ dec_result = 0) => Len(dout) = whole + k - 1
        /\ k = 1 => dec_result # 0 /\ Len(dout) <= whole
        /\ (k = 0 /\ Z85TooBig(sig) = {}) => dec_result = 0 /\ Len(dout) = whole

\* C19: decoding a text with whitespace deleted gives the bytes and the
\* success or failure that decoding the text itself gave.
C19_WhitespaceIgnored ==
    (pc = "done" /\ wrapped.done) =>
        /\ dout = wrapped.out
        /\ (dec_result = RESULT_SUCCESS) <=> (wrapped.result = RESULT_SUCCESS)

\* the four bytes a marker stands for
MarkerBytes(c) == IF c = CharZ THEN <<0, 0, 0, 0>> ELSE <<32, 32, 32, 32>>

\* C20: when decode_ascii85 reads 'z' or 'y' with 1 to 4 characters of a
\* group buffered it returns a decode error and writes nothing more; when
\* it reads one with an empty buffer it goes on, having written the
\* marker's four bytes, and the buffer is still empty.
C20_MarkerInGroup ==
    [][ (pc = "decode" /\ rd < Len(out) /\ rd' = rd + 1
           /\ out[rd + 1] \in {CharZ, CharY}) =>
          /\ (Len(buffer) >= 1 /\ Len(buffer) <= 4) =>
                /\ pc' = "done"
                /\ dec_result' = RESULT_ERROR_DECODE
                /\ dout' = dout
          /\ Len(buffer) = 0 =>
                /\ pc' = "decode"
                /\ dec_result' = RESULT_SUCCESS
                /\ dout' = dout \o MarkerBytes(out[rd + 1])
                /\ buffer' = <<>> ]_vars

\* "z!y": 'z' is accepted at the start, 'y' after '!' is refused
C20_Witness ==
    /\ pc = "done"
    /\ out = <<CharZ, 33, CharY>>
    /\ rd = 3
    /\ buffer = <<33>>
    /\ dout = <<0, 0, 0, 0>>
    /\ dec_result = RESULT_ERROR_DECODE
    /\ stderr = <<"compression character in middle of group">>

(***************************************************************************)
(* Claims about the arithmetic of factoradic.c                             *)
(***************************************************************************)
\* n! and the sum of digit * position! over the digits of s, exactly
RECURSIVE ExactFactorial(_)
ExactFactorial(n) == IF n <= 1 THEN Big(1) ELSE BigMulSmall(ExactFactorial(n - 1), n)

RECURSIVE ExactSum(_, _)
ExactSum(s, i) ==
    IF i > Len(s) THEN BigZero
    ELSE BigAdd(BigMulSmall(ExactFactorial(Len(s) - i + 1), s[i] - 48),
                ExactSum(s, i + 1))

\* C21: when factoradic_to_decimal is given a digit string whose digits are
\* all within their positions, it either prints the exact sum of
\* digit * position!, which then fits in 64 bits, or reports an error and
\* prints nothing.
C21_ExactOrRejected ==
    [][(decode_mode /\ ~verbose_mode /\ in_pos' > in_pos /\ clean' # <<>>
          /\ ~HasDigitOverPosition(clean')) =>
          \/ /\ BigLe(ExactSum(clean', 1), ULLONG_MAX)
             /\ Written = BigDecimal(ExactSum(clean', 1)) \o <<NL>>
          \/ /\ Written = <<>>
             /\ Len(stderr') > Len(stderr)]_vars

(***************************************************************************)
(* Claims about binary.c and the end of the DNA decoder                    *)
(***************************************************************************)
\* the value of the bits, the first the most significant
RECURSIVE BitsValue(_)
BitsValue(bits) ==
    IF bits = <<>> THEN 0
    ELSE 2 * BitsValue(SubSeq(bits, 1, Len(bits) - 1)) + (bits[Len(bits)] - 48)

\* the '0' and '1' characters of a text
BinSignificant(text) == SelectSeq(text, LAMBDA c : c = 48 \/ c = 49)

\* C22 for the binary tool: when 1 to 7 bits are left at the end of the
\* input and no signal has arrived, the bits shifted left to a whole byte
\* are written after the whole bytes, a warning is printed and decode_file
\* returns 0.
C22_BinPartialByte ==
    LET bits == BinSignificant(out)
        k == Len(bits) % 8
        whole == Len(bits) \div 8 IN
    (pc = "done" /\ ~interrupted /\ k > 0) =>
        /\ dec_result = 0
        /\ stderr # <<>>
        /\ Len(dout) = whole + 1
        /\ dout[whole + 1] = BitsValue(SubSeq(bits, 8 * whole + 1, Len(bits))) * Pow2(8 - k)

\* the nucleotides of a text under the default mapping
DnaSignificant(text) == SelectSeq(text, LAMBDA c : c \in { 65, 84, 71, 67 })

\* the 2-bit values of the nucleotides packed, the first the most significant
RECURSIVE DnaValue(_, _)
DnaValue(ns, compl) ==
    IF ns = <<>> THEN 0
    ELSE 4 * DnaValue(SubSeq(ns, 1, Len(ns) - 1), compl)
         + nucleotide_to_bits(IF compl THEN get_complement(ns[Len(ns)]) ELSE ns[Len(ns)],
                              DefaultMapping)

\* C22 for the DNA tool: when 1 to 3 nucleotides are left at the end of the
\* input, their bits shifted left to a whole byte are written after the
\* whole bytes, a warning is printed and decode_dna returns success.
C22_DnaPartialByte ==
    LET ns == DnaSignificant(out)
        k == Len(ns) % NUCLEOTIDES_PER_BYTE
        whole == Len(ns) \div NUCLEOTIDES_PER_BYTE IN
    (pc = "done" /\ k > 0) =>
        /\ dec_result = EXIT_SUCCESS
        /\ stderr # <<>>
        /\ stderr[Len(stderr)] = "incomplete DNA sequence, padded with zeros"
        /\ Len(dout) = whole + 1
        /\ dout[whole + 1] =
              DnaValue(SubSeq(ns, NUCLEOTIDES_PER_BYTE * whole + 1, Len(ns)), dec_complement)
                * Pow2(BITS_PER_NUCLEOTIDE * (NUCLEOTIDES_PER_BYTE - k))

----------------------------------------------------------------------------
\* Claims about the modifier state of braille.c

\* the encoder's number_mode after the first n characters of text
\* (encode_braille(): set by a digit, cleared by anything but a digit or a space)
RECURSIVE EncNumberModeAfter(_, _)
EncNumberModeAfter(text, n) ==
    IF n = 0 THEN FALSE
    ELSE IF IsDigit(text[n]) THEN TRUE
    ELSE IF text[n] # 32 THEN FALSE
    ELSE EncNumberModeAfter(text, n - 1)

\* a line of characters that all have a braille pattern
BrailleSupportedLine(text) ==
    \A i \in 1..Len(text) : text[i] # NL /\ char_to_braille(text[i]) # 255

\* C23: encoding a line of supported characters and decoding the result, each
\* decoded character leaves the decoder in the number mode the encoder was in
\* after the same source character, is a digit exactly when the source
\* character was a digit and an uppercase letter exactly when the source
\* character was uppercase.
C23_ModifierState ==
    [][(pc = "decode" /\ enc_result = RESULT_SUCCESS /\ BrailleSupportedLine(input)
          /\ Len(dout') = Len(dout) + 1 /\ Len(dout') <= Len(input)) =>
          LET n == Len(dout')
              dch == dout'[n] IN
          /\ dec_number_mode' = EncNumberModeAfter(input, n)
          /\ IsDigit(dch) <=> IsDigit(input[n])
          /\ IsUpper(dch) <=> IsUpper(input[n])]_vars

----------------------------------------------------------------------------
\* dancing_man.c

notdance == <<use_z, use_y, encoded, decoded, line_length, wrapped, accvars, z85vars,
              dnavars, factvars, morsevars, braillevars, level, ignore_case, binvars>>

\* sizeof(buffer) and sizeof(current_figure) of decode_dancing_man
DANCE_BUFFER_SIZE == 4096
FIGURE_SIZE == 256

\* rows <<letter, figure>>; the lines of a figure are joined by newlines
dancing_man_table == <<
    <<65, <<32, 79, 32, 10, 47, 124, 92, 10, 47, 32, 92>>>>,
    <<66, <<32, 79, 32, 10, 47, 124, 124, 10, 47, 32, 92>>>>,
    <<67, <<32, 79, 32, 10, 47, 124, 32, 10, 47, 32, 92>>>>,
    <<68, <<32, 79, 32, 10, 32, 124, 124, 124, 10, 47, 32, 92>>>>,
    <<69, <<32, 79, 32, 10, 47, 124, 95, 10, 47, 32, 92>>>>,
    <<70, <<32, 79, 32, 10, 47, 124, 95, 10, 47, 32, 32>>>>,
    <<71, <<32, 79, 32, 10, 47, 124, 43, 10, 47, 32, 92>>>>,
    <<72, <<32, 79, 32, 10, 124, 124, 124, 124, 10, 47, 32, 92>>>>,
    <<73, <<32, 79, 32, 10, 32, 124, 32, 10, 47, 32, 92>>>>,
    <<74, <<32, 79, 32, 10, 32, 32, 124, 10, 47, 32, 92>>>>,
    <<75, <<32, 79, 32, 10, 47, 124, 60, 10, 47, 32, 92>>>>,
    <<76, <<32, 79, 32, 10, 47, 124, 32, 10, 47, 95, 92>>>>,
    <<77, <<32, 79, 32, 10, 47, 124, 92, 92, 10, 47, 32, 92>>>>,
    <<78, <<32, 79, 32, 10, 47, 124, 47, 10, 47, 32, 92>>>>,
    <<79, <<32, 79, 32, 10, 47, 79, 92, 10, 47, 32, 92>>>>,
    <<80, <<32, 79, 32, 10, 47, 124, 94, 10, 47, 32, 92>>>>,
    <<81, <<32, 79, 32, 10, 47, 79, 92, 10, 47, 95, 92>>>>,
    <<82, <<32, 79, 32, 10, 47, 124, 62, 10, 47, 32, 92>>>>,
    <<83, <<32, 79, 32, 10, 47, 124, 126, 10, 47, 32, 92>>>>,
    <<84, <<32, 79, 32, 10, 45, 124, 45, 10, 47, 32, 92>>>>,
    <<85, <<32, 79, 32, 10, 47, 124, 124, 10, 92, 95, 47>>>>,
    <<86, <<32, 79, 32, 10, 47, 124, 92, 10, 32, 92, 32>>>>,
    <<87, <<32, 79, 32, 10, 47, 124, 92, 92, 10, 92, 32, 47>>>>,
    <<88, <<32, 79, 32, 10, 60, 124, 62, 10, 47, 32, 92>>>>,
    <<89, <<32, 79, 32, 10, 92, 124, 47, 10, 32, 124, 32>>>>,
    <<90, <<32, 79, 32, 10, 47, 124, 47, 10, 47, 95, 92>>>> >>

compact_table == <<
    <<65, <<79, 47, 124, 92>>>>,
    <<66, <<79, 47, 124, 124>>>>,
    <<67, <<79, 47, 124, 95>>>>,
    <<68, <<79, 124, 124, 124>>>>,
    <<69, <<79, 47, 124, 95>>>>,
    <<70, <<79, 47, 124, 94>>>>,
    <<71, <<79, 47, 124, 43>>>>,
    <<72, <<79, 124, 124, 124, 124>>>>,
    <<73, <<79, 95, 124, 95>>>>,
    <<74, <<79, 95, 95, 124>>>>,
    <<75, <<79, 47, 124, 60>>>>,
    <<76, <<79, 47, 124, 95>>>>,
    <<77, <<79, 47, 124, 92, 92>>>>,
    <<78, <<79, 47, 124, 47>>>>,
    <<79, <<79, 47, 79, 92>>>>,
    <<80, <<79, 47, 124, 94>>>>,
    <<81, <<79, 47, 79, 92>>>>,
    <<82, <<79, 47, 124, 62>>>>,
    <<83, <<79, 47, 124, 126>>>>,
    <<84, <<79, 45, 124, 45>>>>,
    <<85, <<79, 47, 124, 124>>>>,
    <<86, <<79, 47, 124, 92>>>>,
    <<87, <<79, 47, 124, 92, 92>>>>,
    <<88, <<79, 60, 124, 62>>>>,
    <<89, <<79, 92, 124, 47>>>>,
    <<90, <<79, 47, 124, 47>>>> >>

DanceTable == IF compact_mode THEN compact_table ELSE dancing_man_table

\* the first of the rows, 0 when there is none
FirstRow(rows) == IF rows = {} THEN 0 ELSE CHOOSE i \in rows : \A j \in rows : i <= j

\* the figure of c, <<>> for NULL
find_dancing_man(c) ==
    LET i == FirstRow({ k \in 1..Len(DanceTable) : DanceTable[k][1] = ToUpper(c) }) IN
    IF i = 0 THEN <<>> ELSE DanceTable[i][2]

\* the letter of figure, 0 when no row has it
find_letter(figure) ==
    LET i == FirstRow({ k \in 1..Len(DanceTable) : DanceTable[k][2] = figure }) IN
    IF i = 0 THEN 0 ELSE DanceTable[i][1]

TxtSpaceMark == <<91, 83, 80, 65, 67, 69, 93>>
TxtNewlineMark == <<91, 78, 69, 87, 76, 73, 78, 69, 93>>
TxtSpMark == <<91, 83, 80, 93>>

\* encode_dancing_man(): one character read by fgetc
DanceEncodeChar ==
    /\ pc = "encode"
    /\ in_pos < Len(input)
    /\ in_pos' = in_pos + 1
    /\ LET c == input[in_pos + 1]
           figure == find_dancing_man(c) IN
       IF IsAlpha(c)
       THEN IF figure # <<>>
            THEN /\ out' = out \o (IF first THEN <<>>
                                   ELSE IF compact_mode THEN <<32>>
                                   ELSE <<NL, NL>>) \o figure
                 /\ first' = FALSE
            ELSE UNCHANGED <<out, first>>
       ELSE IF c = 32
       THEN /\ out' = out \o (IF compact_mode THEN <<32>> \o TxtSpMark \o <<32>>
                              ELSE <<NL, NL>> \o TxtSpaceMark \o <<NL, NL>>)
            /\ first' = FALSE
       ELSE IF c = NL /\ ~compact_mode
       THEN /\ out' = out \o <<NL, NL>> \o TxtNewlineMark \o <<NL, NL>>
            /\ first' = FALSE
       ELSE UNCHANGED <<out, first>>
    /\ UNCHANGED <<pc, input, wrap_cols, col_count, enc_result, rd, dout, dec_result,
                   stderr, buffer, scan, compact_mode, current_figure, figure_lines,
                   notdance>>

\* encode_dancing_man(): EOF, the final newline of the multi-line format;
\* main() returns EXIT_SUCCESS
DanceEncodeEnd ==
    /\ pc = "encode"
    /\ in_pos = Len(input)
    /\ out' = IF compact_mode THEN out ELSE Append(out, NL)
    /\ enc_result' = EXIT_SUCCESS
    /\ pc' = "decode"
    /\ UNCHANGED <<input, in_pos, wrap_cols, col_count, rd, dout, dec_result, stderr,
                   buffer, scan, dancevars, notdance>>

\* decode_dancing_man(): the loop that reads the input into buffer
DanceDecodeRead ==
    /\ pc = "decode"
    /\ rd' = Min(Len(out), DANCE_BUFFER_SIZE - 1)
    /\ buffer' = SubSeq(out, 1, Min(Len(out), DANCE_BUFFER_SIZE - 1))
    /\ scan' = 0
    /\ current_figure' = <<>>
    /\ figure_lines' = 0
    /\ pc' = "tokens"
    /\ UNCHANGED <<input, in_pos, wrap_cols, col_count, out, enc_result, dout,
                   dec_result, stderr, compact_mode, first, notdance>>

\* the delimiters given to strtok
DanceDelims == IF compact_mode THEN { 32, NL } ELSE { NL }

\* strtok(): the position of the first character of the next token, and the
\* position after its last character; both Len(buffer) + 1 when none is left
DanceSkip(p, InToken) ==
    LET hits == { q \in p..Len(buffer) : (buffer[q] \notin DanceDelims) = InToken } IN
    IF hits = {} THEN Len(buffer) + 1 ELSE CHOOSE q \in hits : \A r \in hits : q <= r
TokenStart == DanceSkip(scan + 1, TRUE)
TokenStop == DanceSkip(TokenStart, FALSE)

\* decode_dancing_man() with -c: one token
DanceCompactToken(token) ==
    /\ dout' = IF token = TxtSpMark THEN Append(dout, 32)
               ELSE IF find_letter(token) # 0 THEN Append(dout, find_letter(token))
               ELSE dout
    /\ UNCHANGED <<pc, dec_result, current_figure, figure_lines>>

\* decode_dancing_man() without -c: one line.  strcat() into current_figure
\* is undefined once the text and its terminator need more than FIGURE_SIZE
\* bytes: the run either goes on with the bytes written past the array, or
\* is aborted by the C library's check, with or without the output written
\* so far.
DanceLine(line) ==
    LET joined == current_figure \o (IF figure_lines > 0 THEN <<NL>> ELSE <<>>) \o line IN
    IF Len(line) = 0
    THEN IF figure_lines > 0
         THEN /\ dout' = IF find_letter(current_figure) # 0
                         THEN Append(dout, find_letter(current_figure)) ELSE dout
              /\ current_figure' = <<>>
              /\ figure_lines' = 0
              /\ UNCHANGED <<pc, dec_result>>
         ELSE UNCHANGED <<pc, dout, dec_result, current_figure, figure_lines>>
    ELSE IF Contains(line, TxtSpaceMark)
    THEN /\ dout' = Append(dout, 32)
         /\ UNCHANGED <<pc, dec_result, current_figure, figure_lines>>
    ELSE IF Contains(line, TxtNewlineMark)
    THEN /\ dout' = Append(dout, NL)
         /\ UNCHANGED <<pc, dec_result, current_figure, figure_lines>>
    ELSE IF Len(joined) < FIGURE_SIZE
    THEN /\ current_figure' = joined
         /\ figure_lines' = figure_lines + 1
         /\ UNCHANGED <<pc, dout, dec_result>>
    ELSE \/ /\ current_figure' = joined
            /\ figure_lines' = figure_lines + 1
            /\ UNCHANGED <<pc, dout, dec_result>>
         \/ /\ pc' = "done"
            /\ dec_result' = 128 + 6
            /\ dout' \in { dout, <<>> }
            /\ UNCHANGED <<current_figure, figure_lines>>

\* decode_dancing_man(): one turn of the strtok loop
DanceDecodeToken ==
    /\ pc = "tokens"
    /\ TokenStart <= Len(buffer)
    /\ scan' = Min(TokenStop, Len(buffer))
    /\ IF compact_mode
       THEN DanceCompactToken(SubSeq(buffer, TokenStart, TokenStop - 1))
       ELSE DanceLine(SubSeq(buffer, TokenStart, TokenStop - 1))
    /\ UNCHANGED <<input, in_pos, wrap_cols, col_count, out, enc_result, rd, stderr,
                   buffer, compact_mode, first, notdance>>

\* decode_dancing_man(): strtok returns NULL; the last figure; main()
\* returns EXIT_SUCCESS
DanceDecodeEnd ==
    /\ pc = "tokens"
    /\ TokenStart > Len(buffer)
    /\ dout' = IF ~compact_mode /\ figure_lines > 0 /\ find_letter(current_figure) # 0
               THEN Append(dout, find_letter(current_figure))
               ELSE dout
    /\ dec_result' = EXIT_SUCCESS
    /\ pc' = "done"
    /\ UNCHANGED <<input, in_pos, wrap_cols, col_count, out, enc_result, rd, stderr,
                   buffer, scan, dancevars, notdance>>

MaxDance == 3
DanceCharSample == { 65, 66, 118, 32, NL, 49 }
\* letters whose figures together need more than FIGURE_SIZE bytes, and one less
DanceLongTexts == { [i \in 1..n |-> 65] : n \in { 21, 22 } }

InitDance ==
    /\ TextStreams
    /\ input \in TextsOver(DanceCharSample, MaxDance) \cup DanceLongTexts
    /\ compact_mode \in BOOLEAN
    /\ first = TRUE
    /\ current_figure = <<>>
    /\ figure_lines = 0
    /\ A85Idle /\ AccIdle /\ Z85Idle /\ DnaIdle /\ FactIdle /\ MorseIdle /\ BrailleIdle
    /\ LeetIdle /\ BinIdle

NextDance ==
    \/ DanceEncodeChar \/ DanceEncodeEnd
    \/ DanceDecodeRead \/ DanceDecodeToken \/ DanceDecodeEnd

SpecDance == InitDance /\ [][NextDance]_vars

\* decode_dancing_man alone, on short texts over the characters of the
\* figures and on single lines as long as current_figure and longer
MaxDanceDec == 4
\* 'O', '/', '|', '\', ' ', newline
DanceDecSample == { 79, 47, 124, 92, 32, NL }
DanceLongLines == { [i \in 1..n |-> 124] : n \in { FIGURE_SIZE - 1, FIGURE_SIZE } }

InitDanceDec ==
    /\ pc = "decode"
    /\ input = <<>>
    /\ in_pos = 0
    /\ wrap_cols = 0
    /\ col_count = 0
    /\ enc_result = 0
    /\ rd = 0
    /\ dout = <<>>
    /\ dec_result = 0
    /\ stderr = <<>>
    /\ out \in TextsOver(DanceDecSample, MaxDanceDec) \cup DanceLongLines
    /\ compact_mode \in BOOLEAN
    /\ first = TRUE
    /\ current_figure = <<>>
    /\ figure_lines = 0
    /\ A85Idle /\ AccIdle /\ Z85Idle /\ DnaIdle /\ FactIdle /\ MorseIdle /\ BrailleIdle
    /\ LeetIdle /\ BinIdle

NextDanceDec == DanceDecodeRead \/ DanceDecodeToken \/ DanceDecodeEnd

SpecDanceDec == InitDanceDec /\ [][NextDanceDec]_vars

----------------------------------------------------------------------------
\* Claims about dancing_man.c

\* C24: for every text of one or more letters A-Z, encoding it in the
\* multi-line format and decoding the result writes the same letters in the
\* same order.
C24_MultiLineRoundTrip ==
    (pc = "done" /\ ~compact_mode /\ input # <<>>
       /\ \A i \in 1..Len(input) : IsUpper(input[i])) =>
        /\ dec_result = EXIT_SUCCESS
        /\ dout = input

----------------------------------------------------------------------------
\* Claims about the decoder of leet.c

\* the lengths of the table symbols that stand at position i of buf
LeetLengthsAt(buf, i) ==
    { n \in 1..MAX_SYMBOL_LENGTH :
        /\ i + n <= Len(buf)
        /\ \E k \in 1..Len(LeetTable) : LeetTable[k][2] = SubSeq(buf, i + 1, i + n) }

\* the plain character of the first row of the table with the symbol s
LeetFirstPlain(s) ==
    LET rows == { k \in 1..Len(LeetTable) : LeetTable[k][2] = s } IN
    LeetTable[CHOOSE k \in rows : \A j \in rows : k <= j][1]

DanceTokens(text) ==
    LET Blank(p) == p < 1 \/ p > Len(text) \/ text[p] \in { 32, NL }
        starts == { p \in 1..Len(text) : ~Blank(p) /\ Blank(p - 1) }
        Stop(p) == CHOOSE q \in p..Len(text) :
                       Blank(q + 1) /\ \A r \in p..q : ~Blank(r)
        Start(i) == CHOOSE p \in starts : Cardinality({ q \in starts : q <= p }) = i
    IN  [i \in 1..Cardinality(starts) |-> SubSeq(text, Start(i), Stop(Start(i)))]

\* C26 for the compact format of dancing_man.c: every token of the input
\* is decoded to one character, '?' when no row of the table has the token,
\* and the decoder ends successfully.
C26_UnknownTokenIsMarked ==
    (pc = "done" /\ compact_mode) =>
        LET tokens == DanceTokens(buffer) IN
        /\ dec_result = EXIT_SUCCESS
        /\ Len(dout) = Len(tokens)
        /\ \A i \in 1..Len(tokens) :
              dout[i] = IF tokens[i] = TxtSpMark THEN 32
                        ELSE IF find_letter(tokens[i]) # 0 THEN find_letter(tokens[i])
                        ELSE 63

----------------------------------------------------------------------------
\* factoradic.c: the output of a run without -d given to a run with -d

\* main() of the first run returns; its output is the input of the second
FactRoundEncodeEnd ==
    /\ pc = "lines"
    /\ in_pos >= Len(input)
    /\ pc' = "decode"
    /\ enc_result' = EXIT_SUCCESS
    /\ UNCHANGED <<input, in_pos, wrap_cols, col_count, out, rd, dout,
                   dec_result, stderr, factvars, notfact>>

\* process_input() of the second run: one turn of the loop over the lines
FactRoundDecodeLine ==
    /\ pc = "decode"
    /\ rd < Len(out)
    /\ \E ln \in { fgets(out, rd) } :
       \E c \in { CleanFrom(ln, 1, <<>>) } :
          /\ rd' = rd + Len(ln)
          /\ clean' = c.clean
          /\ IF Len(c.clean) = 0
             THEN /\ stderr' = Append(stderr, "no valid digits found in input")
                  /\ UNCHANGED dout
             ELSE \E r \in { factoradic_to_decimal(c.clean) } :
                     /\ dout' = dout \o r.o
                     /\ stderr' = stderr \o r.e
                                  \o (IF c.found_decimal /\ verbose_mode
                                      THEN <<"truncated fractional part">>
                                      ELSE <<>>)
    /\ UNCHANGED <<pc, input, in_pos, wrap_cols, col_count, out, enc_result,
                   dec_result, decode_mode, verbose_mode, notfact>>

\* process_input() of the second run: fgets finds the end; main() returns
FactRoundDecodeEnd ==
    /\ pc = "decode"
    /\ rd >= Len(out)
    /\ pc' = "done"
    /\ dec_result' = EXIT_SUCCESS
    /\ UNCHANGED <<input, in_pos, wrap_cols, col_count, out, enc_result, rd, dout,
                   stderr, factvars, notfact>>

\* the numbers 0 to MaxFactNumber and the numbers around each factorial and
\* around ULLONG_MAX, one on a line
MaxFactNumber == 30

InitFactoradicRound ==
    /\ pc = "lines"
    /\ input \in { ln \o <<NL>> :
                     ln \in { IntDecimal(n) : n \in 0..MaxFactNumber }
                              \cup FactEdgeNumbers }
    /\ in_pos = 0
    /\ wrap_cols = 0
    /\ col_count = 0
    /\ out = <<>>
    /\ enc_result = EXIT_SUCCESS
    /\ rd = 0
    /\ dout = <<>>
    /\ dec_result = EXIT_SUCCESS
    /\ stderr = <<>>
    /\ decode_mode = FALSE
    /\ verbose_mode = FALSE
    /\ clean = <<>>
    /\ A85Idle /\ AccIdle /\ Z85Idle /\ DnaIdle /\ MorseIdle /\ BrailleIdle /\ LeetIdle
    /\ BinIdle /\ DanceIdle

NextFactoradicRound ==
    FactLine \/ FactRoundEncodeEnd \/ FactRoundDecodeLine \/ FactRoundDecodeEnd

SpecFactoradicRound == InitFactoradicRound /\ [][NextFactoradicRound]_vars

----------------------------------------------------------------------------
\* Claims about decimal_to_factoradic

\* C27: for every number from 1 to 2^64 - 1, decimal_to_factoradic chooses a
\* highest position between 1 and 20 whose factorial is at most the number,
\* never takes the invalid-digit branch, writes one digit per position from
\* the highest down to 1, each between 0 and its position, and leaves no
\* remainder: the digits times their factorials add up to the number.
C27_DigitsWithinPositions ==
    [][(~decode_mode /\ ~verbose_mode /\ in_pos' > in_pos /\ clean' # <<>>
          /\ strtoull(clean') # BigZero) =>
          \A num \in { strtoull(clean') } :
          \A max_pos \in { FactMaxPos(num, 1) } :
          \A digits \in { SubSeq(Written, 1, Len(Written) - 1) } :
          /\ 1 <= max_pos /\ max_pos <= MAX_DIGITS
          /\ BigLe(factorial(max_pos), num)
          /\ stderr' = stderr
          /\ Written # <<>>
          /\ Written[Len(Written)] = NL
          /\ Len(digits) = max_pos
          /\ \A i \in 1..Len(digits) :
                digits[i] - 48 >= 0 /\ digits[i] - 48 <= max_pos - i + 1
          /\ ExactSum(digits, 1) = num]_vars

\* 2^64 - 1 has been converted: 20 digits, the first of them 7
C27_Witness ==
    /\ pc = "done"
    /\ ~decode_mode
    /\ ~verbose_mode
    /\ strtoull(clean) = ULLONG_MAX
    /\ Len(out) = MAX_DIGITS + 1
    /\ out[1] = 48 + 7
    /\ stderr = <<>>

\* C28: for every number from 0 to 2^64 - 1, the line decimal_to_factoradic
\* prints consists of the characters '0' to '9' only, and factoradic_to_decimal
\* given that line prints the number.
C28_FactoradicRoundTrip ==
    (pc = "done" /\ BigDecimal(strtoull(StripNL(input))) = StripNL(input)) =>
        /\ \A i \in 1..(Len(out) - 1) : IsDigit(out[i])
        /\ dout = input

----------------------------------------------------------------------------
\* Claims about the line length limit of ascii85.c

\* C29: for every input and every accepted wrap value, wrapping disabled
\* included, encode_ascii85 returns success and reports no error.
C29_EncoderNeverFails ==
    pc # "encode" =>
        /\ enc_result = RESULT_SUCCESS
        /\ \A i \in 1..Len(stderr) : stderr[i] # "line too long"

----------------------------------------------------------------------------
\* Claims about the figure buffer of dancing_man.c

\* C30: in the multi-line format the text accumulated in current_figure,
\* the lines joined by newlines, is never longer than the 255 characters
\* the array holds before its terminator.
C30_FigureFits ==
    ~compact_mode => Len(current_figure) <= FIGURE_SIZE - 1

====
